----------------------- MODULE MCRegistrationGateway -----------------------
(***************************************************************************)
(* RegistrationGateway on small pages.                                     *)
(***************************************************************************)
EXTENDS RegistrationGateway, TLC

(* Components, names and permissions are interchangeable when no name is    *)
(* reserved; used by runs that check no liveness property.                  *)
Symmetry ==
  Permutations(Components) \cup Permutations(Names) \cup Permutations(Permissions)

(* A page whose provider stays, where no name is reserved and no other script *)
(* registers: with MaxEpoch 0, and Reserved and Contested empty, the steps of *)
(* Next left out here are disabled, and it makes no difference. They happen   *)
(* in MCProvider.                                                           *)
StayingNext ==
  \/ \E t \in 1..issued : Work(t)
  \/ \E i \in Components :
       \/ \E n \in Names, p \in Permissions : Mount(i, n, p)
       \/ \E n \in Names, d \in Names \cup {None}, p \in Permissions : Permit(i, n, d, p)
       \/ \E n \in Names : Change(i, n)
       \/ Unmount(i)
  \/ Open

StayingSpec == Init /\ [][StayingNext]_vars

=============================================================================
