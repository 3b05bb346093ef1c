----------------------------- MODULE BlobUpload -----------------------------
(***************************************************************************)
(* The upload of one bundle to blob storage (BlobStorageUploader and       *)
(* ClientUploadManager in codalab/lib/upload_manager.py).  The contents    *)
(* come as a stream that can be read once; one thread uploads them, and    *)
(* another one makes the index of the archive from the same stream.  Each  *)
(* reads through a buffer of its own (codalab/lib/beam/                    *)
(* MultiReaderFileStream.py): who finds too little in it reads the stream, *)
(* under a lock, and fills both buffers; what is in it is taken out        *)
(* without the lock.  One statement of Python is one step, except that     *)
(* "+=" reads in one step and writes in another.                           *)
(***************************************************************************)
EXTENDS Integers, Sequences

CONSTANTS
    ContentLength,   \* bytes of the stream
    ReadLengths,     \* ReadLengths[t]: what a thread asks for in one read
    NoThread,
    MaxUploadFaults  \* bound on failures

Threads == {"file", "index"}

ASSUME ReadSizesAssumption ==
    /\ ContentLength \in Nat
    /\ ReadLengths \in [Threads -> SUBSET (Nat \ {0})]
    /\ NoThread \notin Threads
    /\ MaxUploadFaults \in Nat

VARIABLES
    fed,           \* bytes read from the stream
    bufLock,       \* who holds MultiReaderFileStream._lock
    buf,           \* BytesBuffer.__buf: a deque of chunks
    bufSize,       \* BytesBuffer.__size
    thread,        \* the two threads
    got,           \* what read has returned to a thread so far
    uploader,      \* the thread that waits for both
    bundle,        \* state of the bundle at the server
    lostUpdate,    \* history: a size was written over a newer one
    uploadFaults

streamVars == <<fed, bufLock, buf, bufSize, thread, got, lostUpdate>>
uploadVars == <<streamVars, uploader, bundle, uploadFaults>>

(* A byte is the place it has in the contents. *)
Bytes(i, j) == [k \in 1 .. j - i + 1 |-> i + k - 1]
Content == Bytes(1, ContentLength)

Least(i, j) == IF i < j THEN i ELSE j

Between == [pc |-> "between", want |-> 0, data |-> <<>>, to |-> "file", size |-> 0]

UploadTypeOK ==
    /\ fed \in 0 .. ContentLength
    /\ bufLock \in Threads \union {NoThread}
    /\ buf \in [Threads -> Seq(Seq(Nat))]
    /\ bufSize \in [Threads -> Int]
    /\ thread \in [Threads -> [pc : {"none", "between", "lock", "fill", "append", "add", "added",
                                     "take", "subtract", "subtracted", "ended", "failed"},
                               want : Nat, data : Seq(Nat), to : Threads, size : Int]]
    /\ got \in [Threads -> Seq(Nat)]
    /\ uploader \in {"start", "join", "report", "apologize", "done", "dead"}
    /\ bundle \in {"uploading", "ready", "failed"}
    /\ lostUpdate \in BOOLEAN
    /\ uploadFaults \in 0 .. MaxUploadFaults

UploadInit ==
    /\ fed = 0
    /\ bufLock = NoThread
    /\ buf = [t \in Threads |-> <<>>]
    /\ bufSize = [t \in Threads |-> 0]
    /\ thread = [t \in Threads |-> [Between EXCEPT !.pc = "none"]]
    /\ got = [t \in Threads |-> <<>>]
    /\ uploader = "start"
    /\ bundle = "uploading"
    /\ lostUpdate = FALSE
    /\ uploadFaults = 0

UploadFault == uploadFaults < MaxUploadFaults /\ uploadFaults' = uploadFaults + 1

StartThreads ==
    /\ uploader = "start"
    /\ uploader' = "join"
    /\ thread' = [t \in Threads |-> Between]
    /\ UNCHANGED <<fed, bufLock, buf, bufSize, got, bundle, lostUpdate, uploadFaults>>

-----------------------------------------------------------------------------
(* _fill_buf_bytes *)

Read(t) ==
    /\ thread[t].pc = "between"
    /\ \E n \in ReadLengths[t] : thread' = [thread EXCEPT ![t].pc = "lock", ![t].want = n]
    /\ UNCHANGED <<fed, bufLock, buf, bufSize, got, lostUpdate>>

(* Mutant: one does concurrently read the stream and write to the buffers. *)
NoLock(t) ==
    /\ thread[t].pc = "lock"
    /\ bufLock' = t
    /\ thread' = [thread EXCEPT ![t].pc = "fill"]
    /\ UNCHANGED <<fed, buf, bufSize, got, lostUpdate>>

Lock(t) ==
    /\ thread[t].pc = "lock" /\ bufLock = NoThread
    /\ bufLock' = t
    /\ thread' = [thread EXCEPT ![t].pc = "fill"]
    /\ UNCHANGED <<fed, buf, bufSize, got, lostUpdate>>

EnoughBytes(t) == bufSize[t] >= thread[t].want \/ fed = ContentLength

ReadStream(t) ==
    /\ thread[t].pc = "fill" /\ ~EnoughBytes(t)
    /\ fed' = Least(fed + thread[t].want, ContentLength)
    /\ thread' = [thread EXCEPT ![t].pc = "append", ![t].data = Bytes(fed + 1, fed'),
                                ![t].to = "file"]
    /\ UNCHANGED <<bufLock, buf, bufSize, got, lostUpdate>>

Unlock(t) ==
    /\ thread[t].pc = "fill" /\ EnoughBytes(t)
    /\ bufLock' = NoThread
    /\ thread' = [thread EXCEPT ![t].pc = "take", ![t].data = <<>>]
    /\ UNCHANGED <<fed, buf, bufSize, got, lostUpdate>>

-----------------------------------------------------------------------------
(* BytesBuffer.write *)

AppendChunk(t) ==
    /\ thread[t].pc = "append"
    /\ buf' = [buf EXCEPT ![thread[t].to] = Append(@, thread[t].data)]
    /\ thread' = [thread EXCEPT ![t].pc = "add"]
    /\ UNCHANGED <<fed, bufLock, bufSize, got, lostUpdate>>

LoadToAdd(t) ==
    /\ thread[t].pc = "add"
    /\ thread' = [thread EXCEPT ![t].pc = "added", ![t].size = bufSize[thread[t].to]]
    /\ UNCHANGED <<fed, bufLock, buf, bufSize, got, lostUpdate>>

StoreSize(t, of, newSize) ==
    /\ bufSize' = [bufSize EXCEPT ![of] = newSize]
    /\ lostUpdate' = (lostUpdate \/ bufSize[of] # thread[t].size)

StoreAdded(t) ==
    /\ thread[t].pc = "added"
    /\ StoreSize(t, thread[t].to, thread[t].size + Len(thread[t].data))
    /\ thread' = IF thread[t].to = "file"
                 THEN [thread EXCEPT ![t].pc = "append", ![t].to = "index"]
                 ELSE [thread EXCEPT ![t].pc = "fill", ![t].data = <<>>]
    /\ UNCHANGED <<fed, bufLock, buf, got>>

-----------------------------------------------------------------------------
(* BytesBuffer.read; data is what has been taken out. *)

Wanting(t) == Len(thread[t].data) < thread[t].want /\ buf[t] # <<>>

TakeChunk(t) ==
    /\ thread[t].pc = "take" /\ Wanting(t)
    /\ buf' = [buf EXCEPT ![t] = Tail(@)]
    /\ thread' = [thread EXCEPT ![t].data = @ \o Head(buf[t])]
    /\ UNCHANGED <<fed, bufLock, bufSize, got, lostUpdate>>

GiveBackRest(t) ==
    /\ thread[t].pc = "take" /\ ~Wanting(t)
    /\ LET data == thread[t].data
           taken == Least(thread[t].want, Len(data))
           rest == SubSeq(data, taken + 1, Len(data))
       IN /\ buf' = [buf EXCEPT ![t] = (IF rest = <<>> THEN <<>> ELSE <<rest>>) \o @]
          /\ thread' = [thread EXCEPT ![t].pc = "subtract", ![t].data = SubSeq(data, 1, taken)]
    /\ UNCHANGED <<fed, bufLock, bufSize, got, lostUpdate>>

LoadToSubtract(t) ==
    /\ thread[t].pc = "subtract"
    /\ thread' = [thread EXCEPT ![t].pc = "subtracted", ![t].size = bufSize[t]]
    /\ UNCHANGED <<fed, bufLock, buf, bufSize, got, lostUpdate>>

(* read returns.  Nothing at all ends the thread: upload_file_content      *)
(* closes the blob, SQLiteIndexedTar its index, or it finds that the       *)
(* archive is not whole.                                                   *)
StoreSubtracted(t) ==
    /\ thread[t].pc = "subtracted"
    /\ StoreSize(t, t, thread[t].size - Len(thread[t].data))
    /\ got' = [got EXCEPT ![t] = @ \o thread[t].data]
    /\ \E pc \in IF thread[t].data # <<>> THEN {"between"}
                 ELSE IF t = "index" /\ got[t] # Content THEN {"ended", "failed"} ELSE {"ended"} :
         thread' = [thread EXCEPT ![t] = [Between EXCEPT !.pc = pc]]
    /\ UNCHANGED <<fed, bufLock, buf>>

(* out.write, the quota or progress_callback raises, or the index fails.   *)
(* The exception ends the thread; nobody hears of it.                      *)
ThreadFails(t) ==
    /\ thread[t].pc = "between" /\ UploadFault
    /\ thread' = [thread EXCEPT ![t] = [Between EXCEPT !.pc = "failed"]]
    /\ UNCHANGED <<fed, bufLock, buf, bufSize, got, uploader, bundle, lostUpdate>>

-----------------------------------------------------------------------------
(* ClientUploadManager.upload_to_bundle_store and _update_bundle_state *)

(* upload_index follows join; it may raise. *)
Join ==
    /\ uploader = "join"
    /\ \A t \in Threads : thread[t].pc \in {"ended", "failed"}
    /\ \/ uploader' = "report" /\ UNCHANGED uploadFaults
       \/ uploader' = "apologize" /\ UploadFault
    /\ UNCHANGED <<streamVars, bundle>>

(* enforce_disk_quota takes the size from the index: it raises if there is *)
(* none, or when the size is over the quota that is left.  A client that   *)
(* does not hear of its success reports a failure.                         *)
ReportSuccess ==
    /\ uploader = "report"
    /\ \/ /\ thread["index"].pc = "ended" /\ bundle' = "ready"
          /\ \/ uploader' = "done" /\ UNCHANGED uploadFaults
             \/ uploader' = "apologize" /\ UploadFault
       \/ uploader' = "apologize" /\ UNCHANGED <<bundle, uploadFaults>>
    /\ UNCHANGED streamVars

ReportFailure ==
    /\ uploader = "apologize"
    /\ bundle' = "failed"
    /\ uploader' = "done"
    /\ UNCHANGED <<streamVars, uploadFaults>>

ClientDies ==
    /\ uploader \notin {"done", "dead"} /\ UploadFault
    /\ uploader' = "dead"
    /\ thread' = [t \in Threads |-> [Between EXCEPT !.pc = "failed"]]
    /\ UNCHANGED <<fed, bufLock, buf, bufSize, got, bundle, lostUpdate>>

-----------------------------------------------------------------------------
Stream(t) ==
    /\ \/ Read(t) \/ Lock(t) \/ ReadStream(t) \/ Unlock(t)
       \/ AppendChunk(t) \/ LoadToAdd(t) \/ StoreAdded(t)
       \/ TakeChunk(t) \/ GiveBackRest(t) \/ LoadToSubtract(t) \/ StoreSubtracted(t)
    /\ UNCHANGED <<uploader, bundle, uploadFaults>>

UploadNext ==
    \/ StartThreads \/ Join \/ ReportSuccess \/ ReportFailure \/ ClientDies
    \/ \E t \in Threads : Stream(t) \/ ThreadFails(t)

UploadSpec == UploadInit /\ [][UploadNext]_uploadVars

-----------------------------------------------------------------------------
(* Whatever the two threads do to the buffers, each is given the bytes of  *)
(* the contents in their order, none left out and none twice.  And a       *)
(* bundle is READY only with all its contents, if the thread that uploads  *)
(* them did not fail and no change of a buffer's size was lost: with       *)
(* either it is not so (upload_manager.py:323, un_gzip_stream.py:251).     *)
UploadIntact ==
    /\ \A t \in Threads : got[t] = SubSeq(Content, 1, Len(got[t]))
    /\ bundle = "ready" /\ thread["file"].pc = "ended" /\ ~lostUpdate => got["file"] = Content
=============================================================================
