----------------------------- MODULE MCAuthority -----------------------------
(***************************************************************************)
(* The capabilities of one provider, alone: two usable sets, and renders      *)
(* that React may drop.                                                      *)
(***************************************************************************)
EXTENDS CapabilityAuthority

Is(what) == [is |-> what, own |-> <<>>, inherited |-> <<>>]
Object(members) == [is |-> "object", own |-> members, inherited |-> <<>>]

TwoSets == {Object([application |-> Is("true")]),
            Object([application |-> Is("true"), evaluate |-> Is("true")])}
=============================================================================
