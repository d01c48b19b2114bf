------------------------------- MODULE LocalFs -------------------------------
(***************************************************************************)
(* LocalFsStorage: the storage contract over a directory, for one process.  *)
(* Calls of several instances over one root, some through a symbolic link,  *)
(* mutate one key: the format check of the root, the canonical lock key,    *)
(* the FIFO key lock, and the staged publication under it.                  *)
(*                                                                         *)
(* One step per file-system call whose answer matters.  Keys do not share   *)
(* locks or files, so one key is enough; its encoded name differs from the  *)
(* key itself, as a scan for names of the older layout sees it.             *)
(***************************************************************************)
EXTENDS Naturals, Sequences

CONSTANTS
  FsCall,      \* storage calls; the body a call writes, and so its ETag, is the call
  FsInst,      \* LocalFsStorage instances
  Linked,      \* the instances whose root is spelled through a symbolic link
  NoFile,      \* the key has no file
  MaxCrashes   \* bound: crashes of the process

VARIABLES
  root,      \* the root directory: [exists, marker, legacy]
  file,      \* the body under the key's path, or NoFile
  inst,      \* per instance: [real, checked], what it has memoized
  fsCall,    \* per call: [pc, i, kind, base, lock, dirty, aborted]
  queue,     \* the tickets of every lock key, in call order
  strayed,   \* history: a delete ran under an unresolved lock key
  crashes

fsVars == <<root, file, inst, fsCall, queue, strayed, crashes>>

ASSUME FsAssumption ==
  /\ Linked \subseteq FsInst /\ NoFile \notin FsCall /\ MaxCrashes \in Nat

LockKey == {"real", "link"}
Kind == {"create", "cas", "put", "delete", "get"}
NewInstance == [real |-> FALSE, checked |-> FALSE]
NoCall == [pc |-> "new", i |-> CHOOSE i \in FsInst : TRUE, kind |-> "get", base |-> NoFile,
           lock |-> "real", dirty |-> FALSE, aborted |-> FALSE]

(* A directory of the older layout has no marker and names that the        *)
(* encoding reads differently.                                             *)
FsInit ==
  /\ root \in {[exists |-> FALSE, marker |-> FALSE, legacy |-> FALSE],
               [exists |-> TRUE, marker |-> FALSE, legacy |-> FALSE],
               [exists |-> TRUE, marker |-> FALSE, legacy |-> TRUE]}
  /\ file = NoFile
  /\ inst = [i \in FsInst |-> NewInstance]
  /\ fsCall = [c \in FsCall |-> NoCall]
  /\ queue = [l \in LockKey |-> <<>>]
  /\ strayed = FALSE /\ crashes = 0

Makes(c) == fsCall[c].kind \in {"create", "cas", "put"}
Go(c, pc) == fsCall' = [fsCall EXCEPT ![c].pc = pc]
End(c, res) == fsCall' = [fsCall EXCEPT ![c] = [NoCall EXCEPT !.pc = res]]

(* The next stop of a call whose root has the current encoding.            *)
Past(c) == CASE fsCall[c].kind = "get" -> "read"
             [] fsCall[c].kind = "delete" -> "enter"
             [] OTHER -> "mkdir"

(* get, put, delete: a CAS names the ETag of the body it last read.        *)
FsBegin(c) ==
  /\ fsCall[c].pc = "new"
  /\ \E i \in FsInst, k \in Kind :
       /\ k = "cas" => file # NoFile
       /\ fsCall' = [fsCall EXCEPT ![c] = [NoCall EXCEPT !.pc = "format", !.i = i, !.kind = k,
                                            !.base = IF k = "cas" THEN file ELSE NoFile]]
  /\ UNCHANGED <<root, file, inst, queue, strayed, crashes>>

(* The caller's signal aborts a call; it is looked at on entry and again   *)
(* in the lock.                                                            *)
FsAbort(c) ==
  /\ fsCall[c].pc = "queued" /\ ~fsCall[c].aborted
  /\ fsCall' = [fsCall EXCEPT ![c].aborted = TRUE]
  /\ UNCHANGED <<root, file, inst, queue, strayed, crashes>>

-----------------------------------------------------------------------------
(* #ensureFormat: canonicalRoot memoizes only success; a marker accepts    *)
(* the root at once.                                                       *)
Canonical(i) == [inst EXCEPT ![i].real = @ \/ root.exists]

EnsureFormat(c) ==
  LET i == fsCall[c].i IN
  /\ fsCall[c].pc = "format"
  /\ IF inst[i].checked \/ root.marker
     THEN /\ inst' = [Canonical(i) EXCEPT ![i].checked = TRUE]
          /\ Go(c, Past(c))
     ELSE /\ inst' = Canonical(i)
          /\ Go(c, "scan")
  /\ UNCHANGED <<root, file, queue, strayed, crashes>>

(* findLegacyPaths flags every name the encoding reads differently: older  *)
(* data, but also an escaped key and the marker itself when a peer wrote   *)
(* them meanwhile.  An absent root is created for a PUT and left alone     *)
(* otherwise.                                                              *)
Flagged == root.legacy \/ root.marker \/ file # NoFile

FsScan(c) ==
  /\ fsCall[c].pc = "scan"
  /\ IF ~root.exists /\ ~Makes(c)
     THEN Go(c, Past(c)) /\ UNCHANGED root
     ELSE /\ root' = [root EXCEPT !.exists = TRUE]
          /\ fsCall' = [fsCall EXCEPT ![c].pc = "reread", ![c].dirty = Flagged]
  /\ UNCHANGED <<file, inst, queue, strayed, crashes>>

(* Flagged names refuse the root, unless the marker has appeared since.    *)
Accepts_ScanOnly(c) == ~fsCall[c].dirty
Accepts(c) == ~fsCall[c].dirty \/ root.marker

FsReread(c) ==
  /\ fsCall[c].pc = "reread"
  /\ IF Accepts(c) THEN fsCall' = [fsCall EXCEPT ![c].pc = "stamp", ![c].dirty = FALSE]
                   ELSE End(c, "refused")
  /\ UNCHANGED <<root, file, inst, queue, strayed, crashes>>

(* stampFormatMarker links a temp; the loser of the race finds the marker. *)
StampFormatMarker(c) ==
  /\ fsCall[c].pc = "stamp"
  /\ root' = [root EXCEPT !.marker = TRUE]
  /\ inst' = [inst EXCEPT ![fsCall[c].i].checked = TRUE]
  /\ Go(c, Past(c))
  /\ UNCHANGED <<file, queue, strayed, crashes>>

-----------------------------------------------------------------------------
(* put makes the parent directory before it asks for the lock key.         *)
FsMkdir(c) ==
  /\ fsCall[c].pc = "mkdir"
  /\ root' = [root EXCEPT !.exists = TRUE]
  /\ Go(c, "enter")
  /\ UNCHANGED <<file, inst, queue, strayed, crashes>>

(* #lockKey: the resolved root once realpath has succeeded; the spelling   *)
(* of the caller while the root does not exist.                            *)
LockOf_Spelling(i) == IF i \in Linked THEN "link" ELSE "real"
LockOf(i) == IF Canonical(i)[i].real \/ i \notin Linked THEN "real" ELSE "link"

(* withKeyLock: the ticket is taken in the same turn as the key is known.  *)
TakeTicket(c) ==
  LET i == fsCall[c].i IN
  /\ fsCall[c].pc = "enter"
  /\ inst' = Canonical(i)
  /\ fsCall' = [fsCall EXCEPT ![c].pc = "queued", ![c].lock = LockOf(i),
                            ![c].i = NoCall.i]
  /\ queue' = [queue EXCEPT ![LockOf(i)] = Append(@, c)]
  /\ UNCHANGED <<root, file, strayed, crashes>>

HoldsLock(c) == LET q == queue[fsCall[c].lock] IN q # <<>> /\ Head(q) = c

(* The holder settles, or throws: either way the lock goes to the next.    *)
Release(c, res) ==
  /\ queue' = [queue EXCEPT ![fsCall[c].lock] = Tail(@)]
  /\ End(c, res)

(* Inside the lock: a call aborted while it queued does nothing; a CAS     *)
(* compares the ETag of the file with its base; a delete removes the file. *)
FsEnter(c) ==
  /\ fsCall[c].pc = "queued" /\ HoldsLock(c)
  /\ \/ /\ fsCall[c].aborted
        /\ Release(c, "aborted")
        /\ UNCHANGED <<file, strayed>>
     \/ /\ ~fsCall[c].aborted /\ fsCall[c].kind = "delete"
        /\ file' = NoFile
        /\ strayed' = (strayed \/ fsCall[c].lock = "link")
        /\ Release(c, "ok")
     \/ /\ ~fsCall[c].aborted /\ fsCall[c].kind = "cas" /\ file # fsCall[c].base
        /\ Release(c, "conflict")
        /\ UNCHANGED <<file, strayed>>
     \/ /\ ~fsCall[c].aborted
        /\ fsCall[c].kind \in {"create", "put"} \/ (fsCall[c].kind = "cas" /\ file = fsCall[c].base)
        /\ Go(c, "stage")
        /\ UNCHANGED <<file, queue, strayed>>
  /\ UNCHANGED <<root, inst, crashes>>

(* The temp is written and published: link(2) refuses an existing key,     *)
(* rename(2) replaces it.  Either file-system call may fail.               *)
FsPublish(c) ==
  /\ fsCall[c].pc = "stage"
  /\ \/ /\ fsCall[c].kind = "create" /\ file # NoFile
        /\ Release(c, "conflict")
        /\ UNCHANGED file
     \/ /\ fsCall[c].kind = "create" => file = NoFile
        /\ file' = c
        /\ Release(c, "ok")
     \/ /\ Release(c, "error")
        /\ UNCHANGED file
  /\ UNCHANGED <<root, inst, strayed, crashes>>

(* get takes no lock.                                                      *)
FsRead(c) ==
  /\ fsCall[c].pc = "read"
  /\ End(c, "ok")
  /\ UNCHANGED <<root, file, inst, queue, strayed, crashes>>

(* The process dies: locks and memos are gone, the files stay.             *)
FsCrash ==
  /\ crashes < MaxCrashes /\ crashes' = crashes + 1
  /\ inst' = [i \in FsInst |-> NewInstance]
  /\ queue' = [l \in LockKey |-> <<>>]
  /\ fsCall' = [c \in FsCall |->
                  IF fsCall[c].pc \in {"new", "ok", "aborted", "conflict", "refused", "error"}
                  THEN fsCall[c] ELSE [NoCall EXCEPT !.pc = "dead"]]
  /\ UNCHANGED <<root, file, strayed>>

FsNext ==
  \/ FsCrash
  \/ \E c \in FsCall :
       \/ FsBegin(c) \/ FsAbort(c) \/ EnsureFormat(c) \/ FsScan(c) \/ FsReread(c)
       \/ StampFormatMarker(c) \/ FsMkdir(c) \/ TakeTicket(c) \/ FsEnter(c) \/ FsPublish(c)
       \/ FsRead(c)

FsSpec == FsInit /\ [][FsNext]_fsVars

-----------------------------------------------------------------------------
(* A successful CAS replaces exactly the body it was based on, whichever   *)
(* instances and spellings of the root its peers use.  The one exception   *)
(* the code keeps: a delete that computed its lock key while a linked root *)
(* did not exist yet is not serialized, and the CAS may then revive the    *)
(* key (#putSerialized, #lockKey, #canonicalRoot).                         *)
CasReplacesItsBase ==
  [][\A c \in FsCall :
       fsCall[c].pc = "stage" /\ fsCall[c].kind = "cas" /\ fsCall'[c].pc = "ok"
         => file = fsCall[c].base \/ (strayed /\ file = NoFile)]_fsVars

(* A root without data of the older layout is never refused, however many  *)
(* openers scan, stamp and write at once, or die half-way (#ensureFormat,  *)
(* findLegacyPaths).                                                       *)
FreshRootAccepted == ~root.legacy => \A c \in FsCall : fsCall[c].pc # "refused"
=============================================================================
