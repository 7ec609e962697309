------------------------------- MODULE Photos -------------------------------
(***************************************************************************)
(* Files in object storage and the rows that name them.  Every handler     *)
(* stores the file first, writes the row, and then removes whichever of    *)
(* the two files is not needed; no transaction spans both.  Four places do *)
(* so, each in its own order: the profile picture (the old name is read    *)
(* before the upload, without a lock), a store's photo (read under the     *)
(* lock; the caches are invalidated inside the same try), a product's      *)
(* primary image, and the photo of a support message.                      *)
(***************************************************************************)
EXTENDS Integers, FiniteSets

CONSTANTS
    Calls,
    Kinds,       \* which of the places are used
    MaxFiles,    \* bound: uploads
    StorageFails, \* whether removing a file may fail
    RedisFails,  \* whether an invalidation may raise
    Crashes      \* whether a server may stop in the middle

\* text_support ("opening") and ticket_thread ("answer") insert a message.
Messages == {"opening", "answer"}
AllKinds == {"profile", "store", "product"} \union Messages

PhotoAssumption ==
    /\ Kinds \subseteq AllKinds /\ MaxFiles \in Nat
    /\ {StorageFails, RedisFails, Crashes} \subseteq BOOLEAN

Files == 1..MaxFiles

VARIABLES
    stored, \* files in storage: pairs of bucket and file
    row,    \* the file a row names, 0 for none
    sent,   \* files named by support messages
    used,   \* uploads so far
    leaked, \* history: files that no row names and nothing will remove: a
            \* server stopped, a removal failed, was never made or looked in
            \* the wrong bucket, or the row had come to name another file
    torn,   \* history: files removed although a committed row names them
    call    \* what a handler is about to do

marks == <<leaked, torn>>
vars  == <<stored, row, sent, used, marks, call>>

Idle == [step |-> "idle", kind |-> "profile", old |-> 0, new |-> 0]

\* Support photos go to the bucket for private files.
Bucket(kind) == IF kind \in Messages THEN "private" ELSE "public"
Locations == {"public", "private"} \X Files

TypeOK ==
    /\ stored \subseteq Locations /\ leaked \subseteq Locations
    /\ row \in [AllKinds -> Files \union {0}]
    /\ sent \subseteq Files /\ torn \subseteq Files
    /\ used \in 0..MaxFiles
    /\ \A c \in Calls : call[c].step = "written"
          => call[c].new \in Files /\ call[c].old # call[c].new

Init == /\ stored = {} /\ row = [k \in AllKinds |-> 0] /\ sent = {}
        /\ used = 0 /\ leaked = {} /\ torn = {}
        /\ call = [c \in Calls |-> Idle]

Goto(c, step) == call' = [call EXCEPT ![c].step = step]
Done(c) == call' = [call EXCEPT ![c] = Idle]

\* cleaned_up always looks in the bucket for public files, and swallows what
\* storage says.
CleanedUp(at) ==
    \/ /\ stored' = stored \ {<<"public", at[2]>>}
       /\ leaked' = leaked \union ({at} \ {<<"public", at[2]>>})
    \/ /\ StorageFails
       /\ stored' = stored /\ leaked' = leaked \union {at}

\* Where the file is that a handler has uploaded, and the one it replaces.
NewAt(c) == <<Bucket(call[c].kind), call[c].new>>
OldAt(c) == <<"public", call[c].old>>

-----------------------------------------------------------------------------
\* upload_profile_picture reads the old name and lets go of the row.
Start(c, k) ==
    /\ call[c].step = "idle" /\ k \in Kinds
    /\ call' = [call EXCEPT ![c] =
          [step |-> "started", kind |-> k, new |-> 0,
           old |-> IF k = "profile" THEN row[k] ELSE 0]]
    /\ UNCHANGED <<stored, row, sent, used, marks>>

\* Mutant: the name is the user's, not a fresh one.
SameName == 1
NewName == used + 1

Upload(c) ==
    /\ call[c].step = "started" /\ used < MaxFiles
    /\ used' = used + 1
    /\ stored' = stored \union {<<Bucket(call[c].kind), NewName>>}
    /\ call' = [call EXCEPT ![c].step = "uploaded", ![c].new = NewName]
    /\ UNCHANGED <<row, sent, marks>>

\* Nothing is stored; an upload whose answer is lost is one that is stored and
\* then fails.
UploadFails(c) ==
    /\ call[c].step = "started"
    /\ Done(c)
    /\ UNCHANGED <<stored, row, sent, used, marks>>

\* A new message names the file.
Send(c) ==
    /\ call[c].step = "uploaded" /\ call[c].kind \in Messages
    /\ sent' = sent \union {call[c].new}
    /\ Done(c)
    /\ UNCHANGED <<stored, row, used, marks>>

\* The row is locked, written and committed.  The profile picture that is
\* removed is the one that was read, whatever the row names by now.
Write(c) ==
    LET k == call[c].kind IN
    /\ call[c].step = "uploaded" /\ k \notin Messages
    /\ row' = [row EXCEPT ![k] = call[c].new]
    /\ call' = [call EXCEPT ![c].step = "written",
                            ![c].old = IF k = "profile" THEN @ ELSE row[k]]
    /\ leaked' = IF k = "profile" /\ row[k] \notin {0, call[c].old}
                 THEN leaked \union {<<"public", row[k]>>} ELSE leaked
    /\ UNCHANGED <<stored, sent, used, torn>>

\* Mutant: a failure leaves the new file where it is.
FailForgets(c) ==
    /\ call[c].step = "uploaded"
    /\ Done(c)
    /\ UNCHANGED <<stored, row, sent, used, marks>>

\* The row is gone or not the caller's, or the database fails.
Fail(c) ==
    /\ call[c].step = "uploaded"
    /\ CleanedUp(NewAt(c))
    /\ Done(c)
    /\ UNCHANGED <<row, sent, used, torn>>

\* ticket_thread looks for the ticket, and text_support flushes the new one,
\* after the upload and outside their try.
Refuse(c) ==
    /\ call[c].step = "uploaded" /\ call[c].kind \in Messages
    /\ leaked' = leaked \union {NewAt(c)}
    /\ Done(c)
    /\ UNCHANGED <<stored, row, sent, used, torn>>

CleanOld(c) ==
    /\ call[c].step = "written"
    /\ IF call[c].old = 0 THEN UNCHANGED <<stored, leaked>>
                          ELSE CleanedUp(OldAt(c))
    /\ IF call[c].kind = "store" THEN Goto(c, "invalidate") ELSE Done(c)
    /\ UNCHANGED <<row, sent, used, torn>>

\* store_update: an invalidation that raises is taken for a failed write, and
\* the file that the committed row names is removed, if storage answers.
Invalidate(c) ==
    /\ call[c].step = "invalidate"
    /\ \/ UNCHANGED <<stored, torn>>
       \/ /\ RedisFails
          /\ stored' = stored \ {NewAt(c)}
          /\ torn' = torn \union {call[c].new}
    /\ Done(c)
    /\ UNCHANGED <<row, sent, used, leaked>>

\* What the server held in its hands stays in storage.
InHand(c) == IF call[c].step = "uploaded" THEN {NewAt(c)}
             ELSE IF call[c].step = "written" /\ call[c].old # 0
             THEN {OldAt(c)} ELSE {}

Crash(c) ==
    /\ Crashes /\ call[c].step # "idle"
    /\ leaked' = leaked \union InHand(c)
    /\ Done(c)
    /\ UNCHANGED <<stored, row, sent, used, torn>>

Next == \E c \in Calls :
           \/ \E k \in AllKinds : Start(c, k)
           \/ Upload(c) \/ UploadFails(c) \/ Send(c) \/ Write(c) \/ Fail(c)
           \/ Refuse(c) \/ CleanOld(c) \/ Invalidate(c) \/ Crash(c)

Spec == Init /\ [][Next]_vars

-----------------------------------------------------------------------------
Named == {<<"public", row[k]>> : k \in {k \in AllKinds : row[k] # 0}}
            \union {<<"private", f>> : f \in sent}

\* A file that a row names is in storage, but for the photo that store_update
\* removes when an invalidation raises after its commit: whichever handlers
\* overlap, stop or fail, no other removes a file that a row has come to name
\* (upload_profile_picture, store_update, product_change, text_support,
\* ticket_thread).
NamedIsStored == \A at \in Named : at[2] \notin torn => at \in stored

\* Whatever overlaps, stops or fails, every file in storage is named by a row
\* or in the hands of a handler, but for those left behind where the code is
\* known to leave one (the history leaked; cleaned_up and its callers).
OrphansAreKnown ==
    stored \subseteq Named \union leaked \union UNION {InHand(c) : c \in Calls}

\* With no handler at work, storage holds nothing that no row names
\* (docs/customer_support.md, Decoupled Multi-State Orphan Purging; cleaned_up).
\* The code does not keep this.
NoOrphans == (\A c \in Calls : call[c].step = "idle") => stored \subseteq Named
=============================================================================
