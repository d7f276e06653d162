----------------------------- MODULE PageLibraries -----------------------------
(***************************************************************************)
(* The libraries of the page that have no state in common: the packets     *)
(* (PacketCodec), the Deferreds (Deferred) and requests (Ajax) of jQuery,  *)
(* and the message box over its effects (MessageBox). What one of them     *)
(* does changes nothing of another, so a behaviour here is one of any of   *)
(* the four, chosen with the initial state; the rest stay as they began.   *)
(***************************************************************************)
EXTENDS Ajax, Deferred, Integers

CONSTANTS
  Ints, Shorts, Octets, Strings,    \* of PacketCodec
  MaxMessages                       \* of MessageBox

ASSUME WidthsAssumption ==
  /\ Ints \subseteq (-2147483647 - 1) .. 2147483647
  /\ Shorts \subseteq -32768 .. 32767
  /\ Octets \subseteq -128 .. 127
ASSUME MessagesAssumption == MaxMessages \in Nat

VARIABLES
  part,                                \* the library of the behaviour
  class, packet, stage, saved,         \* of PacketCodec
    loaded, json, shown,
  queue, timeout, box, last            \* of MessageBox

Packets == INSTANCE PacketCodec
Messages == INSTANCE MessageBox

packetsVars == <<class, packet, stage, saved, loaded, json, shown>>
messagesVars == <<queue, timeout, box, last>>
libraries == <<part, packetsVars, deferredVars, messagesVars, vars>>

LibrariesInit ==
  /\ part \in {"packets", "deferred", "messages", "requests"}
  /\ IF part = "packets" THEN Packets!Init
     ELSE /\ class = 0 /\ packet = <<>> /\ stage = "none"
          /\ saved = <<>> /\ loaded = <<>> /\ json = <<>> /\ shown = <<>>
  /\ DeferredInit
  /\ Messages!Init
  /\ Init

LibrariesNext ==
  \/ /\ part = "packets"
     /\ Packets!Next
     /\ UNCHANGED <<part, deferredVars, messagesVars, vars>>
  \/ /\ part = "deferred"
     /\ DeferredNext
     /\ UNCHANGED <<part, packetsVars, messagesVars, vars>>
  \/ /\ part = "messages"
     /\ Messages!Next
     /\ UNCHANGED <<part, packetsVars, deferredVars, vars>>
  \/ /\ part = "requests"
     /\ Next
     /\ UNCHANGED <<part, packetsVars, deferredVars, messagesVars>>

\* The fairness of each; a library that is not the one of the behaviour has no step
\* that it asks for.
LibrariesSpec ==
  LibrariesInit /\ [][LibrariesNext]_libraries /\ DeferredFairness /\ Messages!Fairness

-----------------------------------------------------------------------------
\* EndsOnce of Ajax and ImplementsPromise of Deferred are there by name; these are the
\* others'.

\* What save writes load reads, to the last byte, or the call throws (Styx).
RoundTrip == Packets!RoundTrip

\* The text of a message survives base 64 and utf8.
TextSurvives == Packets!TextSurvives

\* A parameter is described by the name and value that Styx.writeParam was given for it.
ParamsShown == Packets!ParamsShown

\* Every message that messages.js queues comes to stand in the box, fully open.
MessagesShown == Messages!MessagesShown
=============================================================================
