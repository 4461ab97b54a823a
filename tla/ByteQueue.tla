----------------------------- MODULE ByteQueue -----------------------------
(***************************************************************************)
(* What a pipe promises: a queue of at most Capacity bytes.  Bytes come    *)
(* out in the order in which they went in, each of them once; a read       *)
(* reports the end only when every writer is gone and nothing is left, and *)
(* a call fails only because of a kill or because all readers are gone.    *)
(***************************************************************************)
EXTENDS Integers, Sequences

CONSTANTS Reader, Writer, Byte, Capacity

VARIABLES queue,
          rest,              \* what each writer has still to write
          got,               \* what the last read of each reader returned
          ret,               \* how the last call of each process ended
          readers, writers,  \* whether an end is open
          killed

vars == <<queue, rest, got, ret, readers, writers, killed>>

Proc == Reader \cup Writer

Init ==
  /\ queue = <<>>
  /\ rest = [w \in Writer |-> <<>>] /\ got = [r \in Reader |-> <<>>]
  /\ ret = [p \in Proc |-> "none"]
  /\ readers = TRUE /\ writers = TRUE
  /\ killed = {}

StartWrite(w) ==
  /\ ret[w] # "busy"
  /\ rest'[w] \in Seq(Byte) /\ rest'[w] # <<>>
  /\ rest' = [rest EXCEPT ![w] = rest'[w]]
  /\ ret' = [ret EXCEPT ![w] = "busy"]
  /\ UNCHANGED <<queue, got, readers, writers, killed>>

StartRead(r) ==
  /\ ret[r] # "busy"
  /\ got' = [got EXCEPT ![r] = <<>>]
  /\ ret' = [ret EXCEPT ![r] = "busy"]
  /\ UNCHANGED <<queue, rest, readers, writers, killed>>

\* Some bytes go in; the call ends well only when all are in.
Put(w, k) ==
  /\ ret[w] = "busy"
  /\ Len(queue) + k <= Capacity
  /\ queue' = queue \o SubSeq(rest[w], 1, k)
  /\ rest' = [rest EXCEPT ![w] = SubSeq(@, k + 1, Len(@))]
  /\ \/ rest'[w] # <<>> /\ UNCHANGED ret
     \/ rest'[w] = <<>> /\ ret' = [ret EXCEPT ![w] = "ok"]
     \/ /\ rest'[w] # <<>> /\ (~readers \/ w \in killed)
        /\ ret' = [ret EXCEPT ![w] = "fail"]
  /\ UNCHANGED <<got, readers, writers, killed>>

\* Some bytes come out, or the end of the data is reported.
Get(r, k) ==
  /\ ret[r] = "busy"
  /\ k = 0 => queue = <<>> /\ ~writers
  /\ got' = [got EXCEPT ![r] = SubSeq(queue, 1, k)]
  /\ queue' = SubSeq(queue, k + 1, Len(queue))
  /\ ret' = [ret EXCEPT ![r] = IF k = 0 THEN "end" ELSE "ok"]
  /\ UNCHANGED <<rest, readers, writers, killed>>

FailRead(r) ==
  /\ ret[r] = "busy" /\ r \in killed /\ queue = <<>>
  /\ ret' = [ret EXCEPT ![r] = "fail"]
  /\ UNCHANGED <<queue, rest, got, readers, writers, killed>>

Kill(p) ==
  /\ killed' = killed \cup {p}
  /\ UNCHANGED <<queue, rest, got, ret, readers, writers>>

\* An end is closed when nobody can be using it.
HangUp ==
  /\ \/ /\ \A r \in Reader : ret[r] # "busy"
        /\ readers' = FALSE /\ UNCHANGED writers
     \/ /\ \A w \in Writer : ret[w] # "busy"
        /\ writers' = FALSE /\ UNCHANGED readers
  /\ UNCHANGED <<queue, rest, got, ret, killed>>

Next ==
  \/ \E w \in Writer : StartWrite(w) \/ \E k \in 0 .. Len(rest[w]) : Put(w, k)
  \/ \E r \in Reader : StartRead(r) \/ FailRead(r) \/ \E k \in 0 .. Len(queue) : Get(r, k)
  \/ \E p \in Proc : Kill(p)
  \/ HangUp

Spec == Init /\ [][Next]_vars

=============================================================================
