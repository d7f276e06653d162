------------------------------ MODULE Background ------------------------------
(***************************************************************************)
(* What goes on behind the tables: the rows of finished games (GameRecords) *)
(* and the notices of moves (Notices). They share no state that the one    *)
(* changes and the other reads but the game that a notice is about, which  *)
(* Notices has as its own, so a behaviour here is one of either, chosen    *)
(* with the initial state; the other stays as it began.                    *)
(***************************************************************************)
EXTENDS GameRecords, Sequences

CONSTANTS MaxMoves, MaxFaults   \* of Notices

ASSUME BoundsAssumption == MaxMoves \in Nat /\ MaxFaults \in Nat

VARIABLES
  part,   \* "records" or "notices"
  told, sent, queue, token, requests, moves, passed, missed, faults   \* of Notices

noticesVars == <<told, sent, queue, token, requests, moves, passed, missed, faults>>

\* Its game, of the same name as the rows of GameRecords.
NoticesOf == INSTANCE Notices WITH game <- told

BackgroundInit ==
  /\ part \in {"records", "notices"}
  /\ Init
  /\ NoticesOf!Init

BackgroundNext ==
  \/ part = "records" /\ Next /\ UNCHANGED <<part, noticesVars>>
  \/ part = "notices" /\ NoticesOf!Next /\ UNCHANGED <<part, vars>>

BackgroundSpec == BackgroundInit /\ [][BackgroundNext]_<<part, vars, noticesVars>>

-----------------------------------------------------------------------------
\* The property of GameRecords is there by name; this is the other's. Whoever gets
\* the turn is told, by the other's name, unless the notice is lost or late.
TurnsAreTold == NoticesOf!TurnsAreTold
=============================================================================
