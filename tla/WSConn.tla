------------------------------- MODULE WSConn -------------------------------
(***************************************************************************)
(* A WebSocket connection of a live run, internal/transport/ws.go: the     *)
(* locks of WSConn, the socket's two deadlines, the frames this side       *)
(* writes, each in two parts, and those it reads.                          *)
(*                                                                         *)
(* The operators are the steps that goroutines of Live take on it.  Bytes, *)
(* masks and lengths are left out; every frame has a header and a payload. *)
(* Which frame comes next is the peer's choice, and so is when: one it has *)
(* sent and nobody has read yet shows nowhere.                             *)
(***************************************************************************)
EXTENDS Naturals

CONSTANTS
  Writers,      \* the session's speech timers: each writes one message
  HasDeadline,  \* the run's context has a deadline (max_duration_ms > 0)
  MaxMsg,       \* maxMsg, in frames
  SockBuf,      \* bound: parts of frames the socket holds unread
  MaxIn         \* bound: data frames read off the connection

ASSUME ConnAssumption ==
  /\ Writers \cap {"pump", "closer", "free"} = {}
  /\ HasDeadline \in BOOLEAN
  /\ MaxMsg \in Nat /\ SockBuf \in Nat /\ MaxIn \in Nat

VARIABLES
  wmu, rmu,  \* who holds the lock, or "free"
  closed,    \* c.closed
  down,      \* conn.Close() has been called
  due,       \* the deadline of the run's context has passed
  rdl, wdl,  \* the socket's read and write deadlines
  wr,        \* where each goroutine is in writeFrame(AllowClosed)
  last,      \* the last part written, with its writer
  unread,    \* parts written that the peer has not read
  incoming,  \* what is left of MaxIn
  gone       \* the peer has reset the connection

lockVars == <<wmu, rmu, closed, down>>
connVars == <<lockVars, due, rdl, wdl, wr, last, unread, incoming, gone>>

Actors == Writers \cup {"pump", "closer"}
Opcodes == {"data", "cont", "ping", "pong", "close", "bad"}
Frames == [op : Opcodes, fin : BOOLEAN]
Parts == Actors \X {"header", "payload"}
WritePlaces == {"no", "lock", "header", "payload", "sent", "failed"}

ConnTypeOK ==
  /\ wmu \in Actors \cup {"free"} /\ rmu \in {"pump", "closer", "free"}
  /\ closed \in BOOLEAN /\ down \in BOOLEAN
  /\ due \in BOOLEAN
  /\ rdl \in {"none", "ctx", "past"} /\ wdl \in {"none", "ctx", "close"}
  /\ wr \in [Actors -> WritePlaces]
  /\ last \in Parts \cup {<<>>} /\ unread \in 0 .. SockBuf
  /\ incoming \in 0 .. MaxIn /\ gone \in BOOLEAN

(* DialWS returned: the handshake's deadline is cleared. *)
ConnInit ==
  /\ wmu = "free" /\ rmu = "free" /\ closed = FALSE /\ down = FALSE
  /\ due = FALSE /\ rdl = "none" /\ wdl = "none"
  /\ wr = [a \in Actors |-> "no"] /\ last = <<>> /\ unread = 0
  /\ incoming = MaxIn /\ gone = FALSE

-----------------------------------------------------------------------------
(* writeFrame and writeFrameAllowClosed, called by a.                      *)

WriteDeadline(a) ==
  IF a = "closer" THEN "close" ELSE IF HasDeadline THEN "ctx" ELSE "none"
WriteExpired == wdl = "ctx" /\ due

(* The two seconds of Close's own context may pass at any time. *)
WriteMayExpire == WriteExpired \/ wdl = "close"

(* wmu.Lock(), the guard of writeFrame, SetWriteDeadline.  The guard is    *)
(* only on data frames and pongs.                                          *)
(* Mutant: no lock. *)
LocksWithoutWaiting(a, guarded) ==
  /\ wr[a] = "lock"
  /\ ~(guarded /\ closed)
  /\ wmu' = a /\ wdl' = WriteDeadline(a)
  /\ wr' = [wr EXCEPT ![a] = "header"]
  /\ UNCHANGED <<last, unread>>
WriteLocks(a, guarded) ==
  /\ wr[a] = "lock" /\ wmu = "free"
  /\ ~(guarded /\ closed)
  /\ wmu' = a /\ wdl' = WriteDeadline(a)
  /\ wr' = [wr EXCEPT ![a] = "header"]
  /\ UNCHANGED <<last, unread>>

WriteRefused(a, guarded) ==
  /\ wr[a] = "lock" /\ wmu = "free"
  /\ guarded /\ closed
  /\ wr' = [wr EXCEPT ![a] = "failed"]
  /\ UNCHANGED <<wmu, wdl, last, unread>>

(* conn.Write of one part. *)
Puts(a, part) ==
  /\ ~down /\ ~gone /\ unread < SockBuf
  /\ last' = <<a, part>>
  /\ unread' = unread + 1

(* Mutant: the deadline is armed for the payload only. *)
WriteHeaderUnbounded(a) ==
  /\ wr[a] = "header"
  /\ Puts(a, "header")
  /\ wr' = [wr EXCEPT ![a] = "payload"]
  /\ UNCHANGED <<wmu, wdl>>
WriteHeader(a) ==
  /\ wr[a] = "header" /\ ~WriteExpired
  /\ Puts(a, "header")
  /\ wr' = [wr EXCEPT ![a] = "payload"]
  /\ UNCHANGED <<wmu, wdl>>

(* The deferred clearing of the deadline, and wmu.Unlock(). *)
WriteReturns(a, how) ==
  /\ wr' = [wr EXCEPT ![a] = how]
  /\ wdl' = "none" /\ wmu' = "free"

WritePayload(a) ==
  /\ wr[a] = "payload" /\ ~WriteExpired
  /\ Puts(a, "payload")
  /\ WriteReturns(a, "sent")

(* An expired deadline or a broken connection ends the write where it is. *)
WriteFails(a) ==
  /\ wr[a] \in {"header", "payload"}
  /\ WriteMayExpire \/ down \/ gone
  /\ WriteReturns(a, "failed")
  /\ UNCHANGED <<last, unread>>

Write(a, guarded) ==
  /\ \/ WriteLocks(a, guarded) \/ WriteRefused(a, guarded)
     \/ WriteHeader(a) \/ WritePayload(a) \/ WriteFails(a)
  /\ UNCHANGED <<rmu, closed, down, due, rdl, incoming, gone>>

CallsWrite(a) == wr' = [wr EXCEPT ![a] = "lock"]

-----------------------------------------------------------------------------
(* readFrame.  What bufio holds is returned even after the deadline or the *)
(* close.  A read that ends with neither fails when the peer has reset.    *)
IsData(f) == f.op \in {"data", "cont"}

ReadsFrame(f) ==
  IF IsData(f) THEN incoming > 0 /\ incoming' = incoming - 1
               ELSE f.fin /\ UNCHANGED incoming

ReadExpired == rdl = "past" \/ (rdl = "ctx" /\ due)
ReadFails == ReadExpired \/ down \/ gone

-----------------------------------------------------------------------------
(* The peer, which owes us nothing.                                        *)

PeerReads ==
  /\ ~gone /\ unread > 0
  /\ unread' = 0
  /\ UNCHANGED <<lockVars, due, rdl, wdl, wr, last, incoming, gone>>

PeerLeaves ==
  /\ ~gone
  /\ gone' = TRUE
  /\ UNCHANGED <<lockVars, due, rdl, wdl, wr, last, unread, incoming>>

PeerMoves == PeerReads \/ PeerLeaves
=============================================================================
