--------------------------- MODULE TerminalSession ---------------------------
(***************************************************************************)
(* One terminal over a websocket, of a pod or of a node, and the registry  *)
(* that limits how many a user may have.  A session is four goroutines and *)
(* a handler joined by unbuffered pipes and a bounded queue:               *)
(*                                                                         *)
(*   browser --> reader --> stdin pipe --> exec stream --> stdout, stderr  *)
(*   browser <-- pump <-- queue <-- forwarders <-- pipes <-----+           *)
(*                                                                         *)
(* Other sessions come and go in the registry.                             *)
(***************************************************************************)
EXTENDS Naturals, FiniteSets

CONSTANTS PerUser,      \* maxTerminalSessionsPerUser
          AllSessions,  \* maxTerminalSessions
          QueueLength,  \* of the channel to the writer
          SetupTexts    \* bound on the messages sent before the stream

ASSUME TerminalAssumption ==
  /\ PerUser \in Nat \ {0} /\ AllSessions \in Nat \ {0}
  /\ QueueLength \in Nat \ {0} /\ SetupTexts \in Nat

VARIABLES
  handler,   \* "idle", "setup", "stream", "close", "drain", "wait"
  kind,      \* "pod" with stdout and stderr, "node" with stdout alone
  others,    \* the other sessions: of the same user, and of other users
  byUser,    \* the registry's count for the user
  total,     \* and for all users
  ended,     \* the session's context is done
  conn,      \* the server's end of the websocket is open
  browser,   \* the browser is still there
  texts,     \* messages the setup still sends
  queued,    \* messages in the channel
  pump,      \* writePump: "off", "select", "write"
  reader,    \* the stdin goroutine: "off", "read", "write"
  forward,   \* per stream its goroutine: "off", "read", "send"
  stdinOpen, \* the writing end of the stdin pipe is open
  outOpen    \* the writing ends of the output pipes are open

terminalVars == <<handler, kind, others, byUser, total, ended, conn, browser, texts, queued,
                  pump, reader, forward, stdinOpen, outOpen>>
goroutineVars == <<handler, kind, ended, conn, browser, texts, queued, pump, reader, forward,
                   stdinOpen, outOpen>>
streamVars == <<kind, others, byUser, total, texts>>

Streams == {"stdout", "stderr"}
Used == IF kind = "node" THEN {"stdout"} ELSE Streams

TerminalInit ==
  /\ handler = "idle" /\ kind \in {"pod", "node"}
  /\ others = [mine |-> 0, theirs |-> 0] /\ byUser = 0 /\ total = 0
  /\ ended = TRUE /\ conn = FALSE /\ browser = FALSE
  /\ texts = 0 /\ queued = 0
  /\ pump = "off" /\ reader = "off" /\ forward = [s \in Streams |-> "off"]
  /\ stdinOpen = FALSE /\ outOpen = FALSE

-----------------------------------------------------------------------------
(* The registry.                                                           *)

CanAcquire(n) == total < AllSessions /\ n < PerUser

\* release never counts below zero.
Less(n) == IF n > 0 THEN n - 1 ELSE 0

\* acquire and release, by a session of this user or of another.
OtherBegins ==
  /\ total' = total + 1
  /\ \/ /\ CanAcquire(byUser) /\ byUser' = byUser + 1
        /\ others' = [others EXCEPT !.mine = @ + 1]
     \/ /\ CanAcquire(others.theirs) /\ UNCHANGED byUser
        /\ others' = [others EXCEPT !.theirs = @ + 1]
  /\ UNCHANGED goroutineVars
OtherEnds ==
  /\ total' = Less(total)
  /\ \/ /\ others.mine > 0 /\ byUser' = Less(byUser)
        /\ others' = [others EXCEPT !.mine = @ - 1]
     \/ /\ others.theirs > 0 /\ UNCHANGED byUser
        /\ others' = [others EXCEPT !.theirs = @ - 1]
  /\ UNCHANGED goroutineVars

-----------------------------------------------------------------------------
(* The handler, PodTerminal or NodeShell.                                  *)

\* A session that cannot find its cluster or pod, or cannot upgrade, gives its
\* place back at once.
Refused ==
  /\ handler = "idle" /\ CanAcquire(byUser)
  /\ UNCHANGED terminalVars

newWebsocketSession ==
  /\ handler = "idle" /\ CanAcquire(byUser)
  /\ byUser' = byUser + 1 /\ total' = total + 1
  /\ handler' = "setup"
  /\ kind' \in {"pod", "node"}
  /\ texts' \in 0..SetupTexts
  /\ ended' = FALSE /\ conn' = TRUE /\ browser' = TRUE
  /\ pump' = "select"
  /\ UNCHANGED <<others, queued, reader, forward, stdinOpen, outOpen>>

\* Send: refused when the context is done, else it waits for room or for the end.
CanSend == ended \/ queued < QueueLength
Sent == queued' = IF ended THEN queued ELSE queued + 1

SendText ==
  /\ handler = "setup" /\ texts > 0
  /\ CanSend /\ Sent
  /\ texts' = texts - 1
  /\ UNCHANGED <<handler, kind, others, byUser, total, ended, conn, browser, pump, reader, forward,
                 stdinOpen, outOpen>>

\* No shell in the container, no pod on the node, or no executor: the deferred
\* Close runs.  Waiting for the pod of a node takes a minute at most.
SetupFails ==
  /\ handler = "setup" /\ texts = 0
  /\ handler' = "close"
  /\ UNCHANGED <<streamVars, ended, conn, browser, queued, pump, reader, forward,
                 stdinOpen, outOpen>>

StartStream ==
  /\ handler = "setup" /\ texts = 0
  /\ handler' = "stream"
  /\ reader' = "read"
  /\ forward' = [s \in Streams |-> IF s \in Used THEN "read" ELSE "off"]
  /\ stdinOpen' = TRUE /\ outOpen' = TRUE
  /\ UNCHANGED <<streamVars, ended, conn, browser, queued, pump>>

\* StreamWithContext returns when the shell exits, and always once the context is done.
StreamEnds ==
  /\ handler = "stream"
  /\ handler' = "close"
  /\ UNCHANGED <<streamVars, ended, conn, browser, queued, pump, reader, forward,
                 stdinOpen, outOpen>>

\* Close: cancel, close the connection, wait for the pump.
CloseSession ==
  /\ handler = "close"
  /\ ended' = TRUE /\ conn' = FALSE
  /\ handler' = "drain"
  /\ UNCHANGED <<streamVars, browser, queued, pump, reader, forward, stdinOpen, outOpen>>

\* Then the writing ends of all pipes.
\* Mutant: the output pipes are left open.
ClosePipesInput ==
  /\ handler = "drain" /\ pump = "off"
  /\ stdinOpen' = FALSE /\ UNCHANGED outOpen
  /\ handler' = "wait"
  /\ UNCHANGED <<streamVars, ended, conn, browser, queued, pump, reader, forward>>
ClosePipes ==
  /\ handler = "drain" /\ pump = "off"
  /\ stdinOpen' = FALSE /\ outOpen' = FALSE
  /\ handler' = "wait"
  /\ UNCHANGED <<streamVars, ended, conn, browser, queued, pump, reader, forward>>

\* wg.Wait, and the deferred release.  What is left in the channel is dropped.
releaseSession ==
  /\ handler = "wait"
  /\ reader = "off" /\ \A s \in Streams : forward[s] = "off"
  /\ byUser' = Less(byUser) /\ total' = Less(total)
  /\ handler' = "idle" /\ queued' = 0
  /\ browser' = FALSE
  /\ UNCHANGED <<kind, others, texts, ended, conn, pump, reader, forward, stdinOpen, outOpen>>

-----------------------------------------------------------------------------
(* The goroutines.                                                         *)

\* writePump: the context first, then whichever of the queue and the ping is ready.
PumpEnds ==
  /\ pump = "select" /\ ended
  /\ pump' = "off"
  /\ UNCHANGED <<handler, streamVars, ended, conn, browser, queued, reader, forward,
                 stdinOpen, outOpen>>
PumpTakes ==
  /\ pump = "select" /\ ~ended
  /\ pump' = "write"
  /\ \/ queued > 0 /\ queued' = queued - 1
     \/ UNCHANGED queued
  /\ UNCHANGED <<handler, streamVars, ended, conn, browser, reader, forward, stdinOpen, outOpen>>

\* A write ends in ten seconds; a failed one ends the session's context.
PumpWrites ==
  /\ pump = "write"
  /\ \/ conn /\ browser /\ pump' = "select" /\ UNCHANGED ended
     \/ pump' = "off" /\ ended' = TRUE
  /\ UNCHANGED <<handler, streamVars, conn, browser, queued, reader, forward, stdinOpen, outOpen>>

\* The reader: a message of the browser; an error when the connection is gone or
\* has been idle too long, which closes stdin.
ReaderGets ==
  /\ reader = "read" /\ conn /\ browser
  /\ reader' = "write"
  /\ UNCHANGED <<handler, streamVars, ended, conn, browser, queued, pump, forward,
                 stdinOpen, outOpen>>
ReaderFails ==
  /\ reader = "read"
  /\ reader' = "off" /\ stdinOpen' = FALSE
  /\ UNCHANGED <<handler, streamVars, ended, conn, browser, queued, pump, forward, outOpen>>

\* The pipe takes the message when the stream reads it; a closed pipe is an error.
ReaderWrites ==
  /\ reader = "write"
  /\ \/ stdinOpen /\ handler = "stream" /\ reader' = "read"
     \/ ~stdinOpen /\ reader' = "off"
  /\ UNCHANGED <<handler, streamVars, ended, conn, browser, queued, pump, forward,
                 stdinOpen, outOpen>>

\* A forwarder: output of the shell, or the end of its pipe.
ForwardReads(s) ==
  /\ forward[s] = "read"
  /\ \/ handler = "stream" /\ forward' = [forward EXCEPT ![s] = "send"]
     \/ ~outOpen /\ forward' = [forward EXCEPT ![s] = "off"]
  /\ UNCHANGED <<handler, streamVars, ended, conn, browser, queued, pump, reader,
                 stdinOpen, outOpen>>
ForwardSends(s) ==
  /\ forward[s] = "send"
  /\ CanSend /\ Sent
  /\ forward' = [forward EXCEPT ![s] = IF ended THEN "off" ELSE "read"]
  /\ UNCHANGED <<handler, streamVars, ended, conn, browser, pump, reader, stdinOpen, outOpen>>

-----------------------------------------------------------------------------
(* The world.                                                              *)

BrowserLeaves ==
  /\ browser /\ handler # "idle"
  /\ browser' = FALSE
  /\ UNCHANGED <<handler, streamVars, ended, conn, queued, pump, reader, forward,
                 stdinOpen, outOpen>>

\* terminalSessionDuration has passed.
SessionExpires ==
  /\ ~ended
  /\ ended' = TRUE
  /\ UNCHANGED <<handler, streamVars, conn, browser, queued, pump, reader, forward,
                 stdinOpen, outOpen>>

HandlerStep == SendText \/ SetupFails \/ StartStream \/ CloseSession \/ ClosePipes \/ releaseSession
PumpStep == PumpEnds \/ PumpTakes \/ PumpWrites
ReaderStep == ReaderWrites \/ (~conn /\ ReaderFails)
ForwardStep(s) == ForwardReads(s) \/ ForwardSends(s)

TerminalNext ==
  \/ OtherBegins \/ OtherEnds \/ Refused \/ newWebsocketSession
  \/ HandlerStep \/ StreamEnds \/ PumpStep \/ ReaderGets \/ ReaderWrites \/ ReaderFails
  \/ \E s \in Streams : ForwardStep(s)
  \/ BrowserLeaves \/ SessionExpires

-----------------------------------------------------------------------------
\* Every session ends: none of the five waits for another for ever, and the place
\* in the registry is given back.  The registry counts exactly the live sessions.
SessionEnds == handler # "idle" ~> /\ handler = "idle"
                                   /\ byUser = others.mine /\ total = byUser + others.theirs
=============================================================================
