---------------------------- MODULE PromocodeMC ----------------------------
(* Versions of one promocode for TLC: single-use, limited, unlimited. *)
EXTENDS Promocode, TLC

Of(limit, reusable, kind) ==
  [active |-> TRUE, limit |-> limit, reusable |-> reusable, kind |-> kind]
Off(v) == [v EXCEPT !.active = FALSE]

\* Every combination of the two checks, and a promocode switched off.
Checked == {Of(Unlimited, FALSE, "local"), Of(2, FALSE, "local"), Of(1, TRUE, "local"),
            Of(Unlimited, TRUE, "local"), Off(Of(Unlimited, TRUE, "local"))}

\* A reward that adds up and a plan, one of them single-use.
Rewarding == {Of(Unlimited, TRUE, "add"), Of(1, FALSE, "set")}

AnyVersion == Checked \cup Rewarding

\* A behaviour keeps to the versions of one of the two.
OneMix ==
  \E V \in {Checked, Rewarding} :
    ({promo} \cup {seen[c] : c \in Call} \cup {log[i].seen : i \in DOMAIN log}) \ {Nothing}
      \subseteq V

Calls == Permutations(Call)
Users == Permutations(User)
Symmetry == Calls \cup Users
=============================================================================
