---------------------------- MODULE MCStateStore ----------------------------
(* The file of the team's state, and one inference through the app server, *)
(* for TLC.  They share nothing; a behavior is of one of them.             *)
EXTENDS StateStore

CONSTANTS Parts,      \* of those two
          MaxWire

VARIABLES part, at, pending, reply, turn, lifecycle, child, directory, wire, killing,
          closed, told, outcome

A == INSTANCE AppServer

stream == <<at, pending, reply, turn, lifecycle, child, directory, wire, killing,
            closed, told, outcome>>

(* What is not in play stays as it starts. *)
HostInit == part \in Parts /\ Init /\ A!Init

HostNext ==
  \/ part = "state" /\ Next /\ UNCHANGED <<part, stream>>
  \/ part = "stream" /\ A!Next /\ UNCHANGED <<part, vars>>

\* Of the state's file nothing need ever happen.
HostSpec == HostInit /\ [][HostNext]_<<part, vars, stream>> /\ A!Fair

(* A stream gives what the child said, and leaves nothing behind:          *)
(* codex-llm-adapter.ts stream.                                            *)
OutcomeIsTold == A!OutcomeIsTold

(* A stream that began ends: codex-llm-adapter.ts stream,                  *)
(* codex-app-server-client.ts dispose.                                     *)
StreamsEnd == A!StreamsEnd
=============================================================================
