---------------------------- MODULE VersionedFile ----------------------------
(***************************************************************************)
(* What a random-write file of a Store promises to its users, without      *)
(* chunks, checksums, caches or requests: the file is a list of versions,  *)
(* an open handle looks at one of them, a read returns bytes of that       *)
(* version and nothing else, and a write goes through only on the newest   *)
(* version, which it turns into the next one.                              *)
(***************************************************************************)
EXTENDS Integers, Sequences

CONSTANTS Handles,  \* open handles, of one client or of several
          Zero      \* the byte that fills a gap

VARIABLES hist,   \* hist[v] is the content of version v
          view,   \* the version a handle looks at, 0 when it is closed
          out     \* what the last call returned

vars == <<hist, view, out>>

\* The content s with data put at pos; what follows is cut when truncate holds.
Patch(s, pos, data, truncate) ==
  LET end  == pos + Len(data)
      kept == IF truncate \/ Len(s) < end THEN end ELSE Len(s)
  IN [i \in 1..kept |-> IF i > pos /\ i <= end THEN data[i - pos]
                        ELSE IF i <= Len(s) THEN s[i] ELSE Zero]

\* The bytes a read of len bytes at pos returns: fewer at the end of the file.
Slice(s, pos, len) ==
  IF pos >= Len(s) THEN <<>>
  ELSE SubSeq(s, pos + 1, IF pos + len > Len(s) THEN Len(s) ELSE pos + len)

Init == Len(hist) = 1 /\ view = [h \in Handles |-> 0] /\ out.op = "none"

\* A handle is opened, or brought to another version: never to an older one, and not
\* always to the newest, for a write may pass the call by.
Look(h) ==
  /\ \E v \in 1..Len(hist) : v >= view[h] /\ view' = [view EXCEPT ![h] = v]
  /\ out'.op = "look"
  /\ UNCHANGED hist

Close(h) == view' = [view EXCEPT ![h] = 0] /\ out'.op = "close" /\ UNCHANGED hist

Read(h) ==
  /\ view[h] # 0
  /\ out'.op = "read" /\ out'.h = h
  /\ out'.data = Slice(hist[view[h]], out'.pos, out'.len)
  /\ UNCHANGED <<hist, view>>

\* An accepted write; the caller may never learn of it (its view then stays behind).
Write(h) ==
  /\ view[h] = Len(hist)
  /\ out'.op \in {"write", "lost"} /\ out'.h = h
  /\ hist' = Append(hist, Patch(hist[view[h]], out'.pos, out'.data, out'.truncate))
  /\ view' = IF out'.op = "write" THEN [view EXCEPT ![h] = Len(hist')] ELSE view

\* A client without a handle of ours writes on the newest version.
Visit ==
  /\ out'.op = "visit"
  /\ hist' = Append(hist, Patch(hist[Len(hist)], out'.pos, out'.data, out'.truncate))
  /\ UNCHANGED view

\* Somebody replaces the whole file, or only its metadata.
Replace == out'.op = "replace" /\ hist' = Append(hist, out'.data) /\ UNCHANGED view

\* A call that is refused, or that has not reached the file yet.
Quiet == out'.op \in {"fail", "seek", "begin"} /\ UNCHANGED <<hist, view>>

Next ==
  \/ \E h \in Handles : Look(h) \/ Close(h) \/ Read(h) \/ Write(h)
  \/ Visit \/ Replace
  \/ Quiet

Spec == Init /\ [][Next]_vars
=============================================================================
