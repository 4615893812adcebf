-------------------------- MODULE MCRoomAllocation --------------------------
(***************************************************************************)
(* RoomAllocation with numbers for clients, which come in their order:     *)
(* they are interchangeable, so every other behaviour is one of these with *)
(* the clients renamed.                                                    *)
(***************************************************************************)
EXTENDS RoomAllocation

ComeInOrder == \A c, d \in Clients : c < d /\ status[d] # "new" => status[c] # "new"

MCNext == Next /\ ComeInOrder'

MCSpec == Init /\ [][MCNext]_vars /\ Fairness
=============================================================================
