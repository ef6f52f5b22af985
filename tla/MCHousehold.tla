----------------------------- MODULE MCHousehold -----------------------------
(***************************************************************************)
(* The documents of the model-checking runs: a hub, a pet door and a cat   *)
(* flap, each with its curfews, and one pet; then the ways in which a      *)
(* build fails or leaves tables the service cannot start from.  Beside     *)
(* them, data for the codecs: edges of the fields of a time stamp (TLC's   *)
(* numbers end with the year 31), chips with and without a leading zero,   *)
(* even and odd ones, and messages of one to three frames.                 *)
(***************************************************************************)
EXTENDS Household, Codecs

MCSlots == [d \in PetDoors |-> <<"tom">>]
MCTexts == {<<"noon">>, <<"noon", Comma, "night">>}

MCHome ==
    [sound |-> TRUE, online |-> TRUE,
     devices |-> <<"hub", "door", "flap">>, pets |-> <<"tom">>,
     did |-> [p \in Pets |-> <<[what |-> "activity", at |-> NoMac]>>],
     curfew |-> [d \in Doors |-> IF d = "door" THEN <<[on |-> TRUE, span |-> "night"]>>
                    ELSE <<[on |-> TRUE, span |-> "night"], [on |-> FALSE, span |-> "noon"]>>],
     tags |-> [m \in Devices |-> IF m \in Doors THEN <<"tom">> ELSE <<>>]]

MCClouds ==
    {MCHome,
     [MCHome EXCEPT !.sound = FALSE],
     [MCHome EXCEPT !.did["tom"] = <<[what |-> "activity", at |-> "door"]>>],
     [MCHome EXCEPT !.devices = <<"feeder", "hub">>, !.online = FALSE],
     [MCHome EXCEPT !.devices = <<"hub", "felaqua">>,
                    !.did["tom"] = <<[what |-> "feeding", at |-> NoMac], [what |-> "drinking", at |-> NoMac]>>]}

MCOneCloud == {MCHome}

MCStamps ==
    [year : {0, 21, 31}, month : {1, 8, 12}, day : {1, 16, 31}, hour : {0, 15, 16, 23},
     minute : {0, 31, 32, 59}, second : {0, 59}]

MCChips ==
    [country : {1, 3, 4, 900, 1023}, low1 : {0, 15, 16, 255}, low2 : {0, 255}, low3 : {0, 17},
     low4 : {0, 255}, high : {0, 63}]

MCDoorChips ==
    {[i \in 1 .. 48 |-> IF i \in ones THEN 1 ELSE 0] : ones \in {{48}, {11}, {1, 2, 3, 8, 47}, {1, 47, 48}, 1 .. 48}}

MCFrames  == {<<>>, <<1>>, <<0, 3>>, <<1, 2, 3>>, <<24, 0, 0, 0, 0>>}
MCBatches ==
    {<<f>> : f \in MCFrames}
        \cup {b \in MCFrames \X MCFrames : Len(b[1]) >= 2}
        \cup {b \in MCFrames \X MCFrames \X MCFrames : Len(b[1]) >= 2 /\ Len(b[2]) >= 2}

\* Evaluated by TLC on these data; all but the last are proved for all in CodecsProofs.
ASSUME CodecsAgree == StampsReturn /\ ChipsReturn /\ DoorChipsReturn /\ FramesReturn
=============================================================================
