-------------------------------- MODULE MCPicker --------------------------------
(***************************************************************************)
(* A page for the picker: a card whose open shadow root holds a button at  *)
(* one point and nothing at the other, and lists the card itself at both,  *)
(* in front of a section.                                                  *)
(***************************************************************************)
EXTENDS Picker, TLC

CONSTANTS card, button, section, near, far

MCElements == {card, button, section}
MCPoints == {near, far}
MCFromPoint ==
    (Document :> [p \in MCPoints |-> <<card, section>>])
    @@ (card :> (near :> <<button, card>> @@ far :> <<card>>))
    @@ (Host :> [p \in MCPoints |-> <<Highlight, Host>>])
=============================================================================
