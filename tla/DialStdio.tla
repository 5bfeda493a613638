----------------------------- MODULE DialStdio -----------------------------
(***************************************************************************)
(* A program that starts a server as its child and talks to it over pipes  *)
(* (grpcclient.DialStdio, and the echo client's dialStdioCommand), together *)
(* with that server and its stdio listener, module Serve.  Over stdin the   *)
(* child learns that its parent is gone; over stdout the parent learns that *)
(* the child serves, from the first byte, or that it is gone.              *)
(***************************************************************************)
EXTENDS Serve

CONSTANT Launchers   \* whether the child may be started by a launcher ("go run")

ASSUME LaunchersAssumption == Launchers \subseteq BOOLEAN
ASSUME OneChildAssumption ==
  \A d \in Deployments : \A s, t \in Servers : d[s] = "stdio" /\ d[t] = "stdio" => s = t

VARIABLES
  launcher,   \* the process the parent knows is not the server
  ctx,        \* the context given to DialStdio: "live", "ended"
  dial,       \* DialStdio, then what its caller does with the connection
  child,      \* the process started: "none", "running", "killed", "reaped"
  reader,     \* the goroutine that reads the first byte
  stdout      \* what the child has written: "empty", "written"

dialVars == <<launcher, ctx, dial, child, reader>>
vars == <<serveVars, dialVars, stdout>>

TypeOK ==
  /\ ServeTypeOK
  /\ launcher \in BOOLEAN /\ ctx \in {"live", "ended"}
  /\ dial \in {"idle", "byte", "handshake", "retry", "connected", "failed", "closed"}
  /\ child \in {"none", "running", "killed", "reaped"}
  /\ reader \in {"none", "reading", "byte", "error"}
  /\ stdout \in {"empty", "written"}

Stdio(s) == scheme[s] = "stdio"

Init == /\ ServeInit
        /\ launcher \in Launchers /\ (launcher => \E s \in Servers : Stdio(s))
        /\ ctx = "live" /\ dial = "idle" /\ child = "none" /\ reader = "none" /\ stdout = "empty"

Pipe(s) == {c \in Conns : at[c] = s}
DialAt(from, to) == dial = from /\ dial' = to

(* The server is gone, so that the parent reads what it wrote, and the end.   *)
Eof(s) == stage[s] \in {"returned", "dead"}
SettingsSent(s) == ConnsAt(s, {"handshake", "served"}) # {}
Prints == stdout' = IF (\E s \in Servers : Stdio(s) /\ SettingsSent(s))' THEN "written" ELSE stdout

(* Killing reaches the process the parent started, and no launcher's child.   *)
Kill(s) == IF launcher \/ ~Alive(s) THEN UNCHANGED <<stage, lis, queue, conn>> ELSE Dies(s)

(* Waiting for it closes the parent's ends of the pipes.                      *)
killAndWait(s) ==
  /\ Kill(s) /\ child' = "reaped" /\ left' = left \cup Pipe(s)

-----------------------------------------------------------------------------
StartChild(s) ==
  /\ Stdio(s) /\ DialAt("idle", "byte") /\ child' = "running" /\ reader' = "reading"
  /\ ListenStdio(s)
  /\ UNCHANGED <<launcher, ctx, stdout>>

(* Its channel has room for what it finds, though nobody may wait for it.     *)
ReaderEnds(s) ==
  /\ reader = "reading" /\ Stdio(s)
  /\ \/ stdout = "written" /\ child # "reaped" /\ reader' = "byte"
     \/ stdout = "empty" /\ Eof(s) /\ reader' = "error"
     \/ child = "reaped" /\ reader' = "error"
  /\ UNCHANGED <<serveVars, launcher, ctx, dial, child, stdout>>

Fails(s, from) ==
  /\ Stdio(s) /\ DialAt(from, "failed") /\ killAndWait(s)
  /\ UNCHANGED <<scheme, result, path, at, cut, stopVars, crashes, launcher, ctx, reader, stdout>>
StartFails(s)    == reader = "error" /\ Fails(s, "byte")
StartTimesOut(s) == ctx = "ended" /\ Fails(s, "byte")

(* The byte is put back, and the only connection is dialled.                  *)
FirstByte ==
  /\ reader = "byte" /\ DialAt("byte", "handshake")
  /\ UNCHANGED <<serveVars, launcher, ctx, child, reader, stdout>>
Connected(s) ==
  /\ Stdio(s) /\ SettingsSent(s) /\ DialAt("handshake", "connected")
  /\ UNCHANGED <<serveVars, launcher, ctx, child, reader, stdout>>

(* The child is gone, is silent for too long, or wrote something else: the     *)
(* pipe is closed and cannot be dialled again, and until the context ends      *)
(* DialContext tries in vain.                                                *)
HandshakeBreaks(s) ==
  /\ Stdio(s) /\ DialAt("handshake", "retry") /\ left' = left \cup Pipe(s)
  /\ UNCHANGED <<scheme, runVars, lisVars, conn, at, cut, stopVars, crashes>>
  /\ UNCHANGED <<launcher, ctx, child, reader, stdout>>
IgnoresContext(s) == FALSE /\ UNCHANGED vars   \* mutant: dialled with a context of its own
HandshakeTimesOut(s) == ctx = "ended" /\ (Fails(s, "handshake") \/ Fails(s, "retry"))

(* The caller is done: it kills and reaps the child (the echo client), or      *)
(* kills it and closes the connection, or just exits.                        *)
CloseConnection(s) ==
  /\ Stdio(s) /\ DialAt("connected", "closed")
  /\ \/ killAndWait(s)
     \/ Kill(s) /\ child' = "killed" /\ left' = left \cup Pipe(s)
     \/ UNCHANGED <<stage, lis, queue, conn, child>> /\ left' = left \cup Pipe(s)
  /\ UNCHANGED <<scheme, result, path, at, cut, stopVars, crashes, launcher, ctx, reader, stdout>>

(* The context ends: before Wait the child is killed with it.                 *)
ContextEnds(s) ==
  /\ Stdio(s) /\ ctx = "live" /\ ctx' = "ended" /\ dial # "idle"
  /\ IF child = "running" THEN Kill(s) /\ child' = "killed"
                          ELSE UNCHANGED <<stage, lis, queue, conn, child>>
  /\ UNCHANGED <<scheme, result, path, at, left, cut, stopVars, crashes, launcher, dial, reader, stdout>>

-----------------------------------------------------------------------------
DialStep == \/ FirstByte
            \/ \E s \in Servers : StartFails(s) \/ StartTimesOut(s) \/ HandshakeTimesOut(s)

(* Over pipes the handshake is the parent's, and its end is never left by     *)
(* itself.                                                                  *)
Serving ==
  \/ \E s \in Servers : \/ ~Stdio(s) /\ ListenStep(s)
                        \/ RunStep(s) \/ SendSignal(s) \/ StopStep(s) \/ Crash(s)
  \/ \E c \in Conns : \/ Connect(c) \/ UpgradeStep(c) \/ ConnStep(c)
                      \/ ~(at[c] # None /\ Stdio(at[c])) /\ (Handshake(c) \/ Leave(c))
                      \/ dial \in {"handshake", "connected"} /\ Handshake(c)

Next == \/ Serving /\ UNCHANGED dialVars /\ Prints
        \/ \E s \in Servers : \/ StartChild(s) \/ ReaderEnds(s) \/ Connected(s) \/ HandshakeBreaks(s)
                              \/ CloseConnection(s) \/ ContextEnds(s)
        \/ DialStep

Spec == Init /\ [][Next]_vars

(* The child may be silent: nothing says that a handshake ends by itself.     *)
FairDial      == WF_vars(DialStep)
FairReader(s) == WF_vars(ReaderEnds(s))
Fairness == ServeFairness /\ FairDial /\ \A s \in Servers : FairReader(s)
FairSpec == Spec /\ Fairness

-----------------------------------------------------------------------------
(* Properties.                                                              *)

(* A DialStdio that fails leaves no process and no zombie behind.             *)
NoChildLeft ==
  dial = "failed" => child = "reaped" /\ \A s \in Servers : Stdio(s) => Pipe(s) \subseteq left

(* The context's end ends DialStdio, wherever it is; the death of a child that *)
(* has not written anything ends it at once; and after it, or the end of the   *)
(* connection, neither the child, a launcher's child nor the goroutine that   *)
(* reads the first byte, whoever may still wait for it, goes on.              *)
DialEnds ==
  /\ ctx = "ended" ~> dial \in {"connected", "failed", "closed"}
  /\ \A s \in Servers : Stdio(s) /\ Eof(s) /\ dial = "byte" ~> dial # "byte"
  /\ dial \in {"failed", "closed"} ~>
       reader # "reading" /\ \A s \in Servers : Stdio(s) => ~Alive(s)
=============================================================================
