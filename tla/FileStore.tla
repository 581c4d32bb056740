----------------------------- MODULE FileStore -----------------------------
(***************************************************************************)
(* What the file system promises its callers: a map from paths to files    *)
(* and directories, on which one request at a time works.  An entry        *)
(* appears and disappears in one piece, a directory only when nothing is   *)
(* below it, only the requested path is touched, success means the         *)
(* request took effect, and a crash forgets the request and nothing else.  *)
(* Fat32 is shown to implement this on a disk that is written sector by    *)
(* sector.                                                                 *)
(***************************************************************************)
EXTENDS Naturals, Sequences, TLC

CONSTANTS
  Requests,     \* the requests: [do, path, data]
  NoRequest     \* nothing is being done

VARIABLES
  files,        \* path -> [dir, data]
  request,      \* the request being served
  answer        \* the answer to the last request

\* Any tree to begin with.
Init ==
  /\ request = NoRequest
  /\ answer = "none"

Below(p) == {q \in DOMAIN files : Len(q) >= Len(p) /\ SubSeq(q, 1, Len(p)) = p}

Made(r) == [dir |-> r.do = "mkdir", data |-> r.data]

Receive ==
  /\ request = NoRequest
  /\ request' \in Requests
  /\ answer' = "none"
  /\ UNCHANGED files

Remove ==
  /\ request # NoRequest
  /\ request.do \in {"write", "delete", "rmdir", "unlink"}
  /\ Below(request.path) = {request.path}
  /\ files' = [q \in DOMAIN files \ {request.path} |-> files[q]]
  /\ UNCHANGED <<request, answer>>

Add ==
  /\ request # NoRequest
  /\ request.do \in {"write", "mkdir"}
  /\ request.path \notin DOMAIN files
  /\ files' = files @@ (request.path :> Made(request))
  /\ UNCHANGED <<request, answer>>

Done(r) ==
  IF r.do \in {"write", "mkdir"}
  THEN r.path \in DOMAIN files /\ files[r.path] = Made(r)
  ELSE r.path \notin DOMAIN files

Answer ==
  /\ request # NoRequest
  /\ request' = NoRequest
  /\ answer' \in {"err"} \union (IF Done(request) THEN {"ok"} ELSE {})
  /\ UNCHANGED files

Crash ==
  /\ request' = NoRequest
  /\ answer' = "none"
  /\ UNCHANGED files

Next == Receive \/ Remove \/ Add \/ Answer \/ Crash

Spec == Init /\ [][Next]_<<files, request, answer>>
=============================================================================
