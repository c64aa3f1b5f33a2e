----------------------------- MODULE FileUpload -----------------------------
(***************************************************************************)
(* Uploads to the file server (FileServer/FileSession.cpp).  A client      *)
(* sends a JSON head {fileName, fileSize} and then the bytes of the file;  *)
(* OnRead hands whatever one read returned to Process as one message.      *)
(* There is no framing: the session's state (m_isState, m_fp, m_offset,    *)
(* m_filesize) decides whether a message is a head, data or an HTTP        *)
(* request.                                                                *)
(*                                                                         *)
(* A byte is a token: the two halves of a head, a byte of a file, or a     *)
(* byte with which a read looks like an HTTP request line or starts with   *)
(* a JSON value that is no object (a number, a string, an array).  The     *)
(* JSON reader ignores what follows a complete value, so a read parses as  *)
(* a head when it starts with both halves.                                 *)
(*                                                                         *)
(* What fwrite takes may stay in the stream's buffer until fclose, or until *)
(* exit(), which signal_exit calls: it flushes every stream nobody closed. *)
(*                                                                         *)
(* With orderly TCP returns every send of a client as one read, a client   *)
(* sends a head only after the answer to its last upload and sends nothing *)
(* more after an error: what a client of this server has to arrange for.   *)
(* Without it reads are cut and merged anywhere and clients do not wait.   *)
(*                                                                         *)
(* A definition introduced by "Slip:" is a plausible mistake in the code   *)
(* that follows it; no specification uses it.                              *)
(***************************************************************************)
EXTENDS Integers, Sequences, SequencesExt

CONSTANTS
  Sessions,   \* FileSession objects, one per connection
  Names,      \* file paths
  Videos,     \* the paths that contain ".mp4"
  Clients,    \* who uploads what: [orderly, script] records; a script gives each
              \* session a sequence of [name, size, at, looks] records, where size
              \* -1 stands for a head without an integer fileSize, and looks
              \* says what a read that begins with byte at looks like
  IntMax,     \* INT32_MAX, scaled down
  NoFile      \* a null FILE*, a file that does not exist

ASSUME ClientsAssumption ==
  \A c \in Clients :
    /\ c.orderly \in BOOLEAN
    /\ c.script \in [Sessions -> Seq([name : Names, size : -1 .. IntMax, at : Nat,
                                       looks : {"plain", "http", "json"}])]
ASSUME NoFileAssumption == NoFile \notin Names /\ Videos \subseteq Names
ASSUME LimitsAssumption == IntMax \in Nat /\ IsFiniteSet(Sessions)

VARIABLES
  orderly,     \* what the clients are like, see above
  script,      \* what they upload
  up,          \* client: index of the upload it is busy with
  unsent,      \* client: bytes of that upload still to be sent; -1 before the head
  client,      \* client: "ready", "busy", "failed" or "gone"
  inflight,    \* packets between client and session
  m_isState,
  m_fp,        \* the path m_fp was opened for, or NoFile
  pos,         \* how much of the file m_fp has written
  buffer,      \* what fwrite took and m_fp has not written yet
  m_offset,
  m_filesize,
  disk,        \* contents of every path, NoFile if there is none
  converted,   \* paths whose .ts was produced by handleVideo
  overlapped,  \* history: another session opened the file m_fp has open
  leaked,      \* streams that are open and that no session knows any more
  exited,      \* has signal_exit been called?
  kept,        \* history: what a path held when an upload of it was last answered with
               \* success, NoFile if fclose had failed or a later upload has opened it
  rivals,      \* history: the other sessions that had the file open at that moment
  stored       \* history: what the disk held at every "Ok", "Next" or "html"

clientVars == <<up, unsent, client>>
sessVars == <<m_isState, m_fp, pos, buffer, m_offset, m_filesize>>
fileVars == <<disk, converted, leaked, kept, rivals, overlapped, stored>>
fixed == <<orderly, script>>
env == <<exited, fixed>>
vars == <<fixed, up, unsent, client, inflight, sessVars, fileVars, exited>>

\* m_offset is an int32_t.
Wrap(n) == ((n + IntMax + 1) % (2 * (IntMax + 1))) - (IntMax + 1)

Token(kind, s, i) == [kind |-> kind, from |-> s, up |-> i]

HeadTokens(s, i) == <<Token("head1", s, i), Token("head2", s, i)>>

Body(s, i) ==
  [k \in 1 .. script[s][i].size |->
     Token(IF k = script[s][i].at THEN script[s][i].looks ELSE "plain", s, i)]

Init ==
  /\ \E c \in Clients : orderly = c.orderly /\ script = c.script
  /\ up = [s \in Sessions |-> 1]
  /\ unsent = [s \in Sessions |-> -1]
  /\ client = [s \in Sessions |-> "ready"]
  /\ inflight = [s \in Sessions |-> << >>]
  /\ m_isState = [s \in Sessions |-> FALSE]
  /\ m_fp = [s \in Sessions |-> NoFile]
  /\ pos = [s \in Sessions |-> 0]
  /\ buffer = [s \in Sessions |-> << >>]
  /\ m_offset = [s \in Sessions |-> 0]
  /\ m_filesize = [s \in Sessions |-> 0]
  /\ disk = [n \in Names |-> NoFile]
  /\ converted = {}
  /\ leaked = {}
  /\ exited = FALSE
  /\ kept = [n \in Names |-> NoFile]
  /\ rivals = [n \in Names |-> {}]
  /\ overlapped = [s \in Sessions |-> FALSE]
  /\ stored = {}

-----------------------------------------------------------------------------
(* Clients *)

\* One send is one packet, or cut into bytes when TCP may cut it anywhere.
Transmit(s, tokens) ==
  inflight' = [inflight EXCEPT ![s] =
    @ \o IF orderly THEN <<tokens>> ELSE [k \in DOMAIN tokens |-> <<tokens[k]>>]]

SendHead(s) ==
  /\ ~exited
  /\ client[s] = "ready"
  /\ up[s] \in DOMAIN script[s]
  /\ client' = [client EXCEPT ![s] = "busy"]
  /\ unsent' = [unsent EXCEPT ![s] = IF script[s][up[s]].size > 0 THEN script[s][up[s]].size ELSE 0]
  /\ Transmit(s, HeadTokens(s, up[s]))
  /\ UNCHANGED <<up, sessVars, fileVars, env>>

\* The next n bytes of the file.
SendBody(s, n) ==
  /\ ~exited
  /\ client[s] = "busy"
  /\ n \in 1 .. unsent[s]
  /\ unsent' = [unsent EXCEPT ![s] = @ - n]
  /\ LET body == Body(s, up[s])
         first == Len(body) - unsent[s] + 1
     IN  Transmit(s, SubSeq(body, first, first + n - 1))
  /\ UNCHANGED <<up, client, sessVars, fileVars, env>>

\* A client that does not wait goes on to its next upload.
SkipWait(s) ==
  /\ ~exited
  /\ ~orderly
  /\ client[s] = "busy"
  /\ unsent[s] = 0
  /\ client' = [client EXCEPT ![s] = "ready"]
  /\ up' = [up EXCEPT ![s] = @ + 1]
  /\ UNCHANGED <<unsent, inflight, sessVars, fileVars, env>>

\* m_fp as a stream that outlives the session.
Stream(s) == [sess |-> s, name |-> m_fp[s], pos |-> pos[s], bytes |-> buffer[s]]

\* The connection goes down; the session is erased from m_sessions and its
\* empty destructor closes nothing.
Disconnect(s) ==
  /\ ~exited
  /\ client[s] # "gone"
  /\ client' = [client EXCEPT ![s] = "gone"]
  /\ inflight' = [inflight EXCEPT ![s] = << >>]
  /\ leaked' = IF m_fp[s] = NoFile THEN leaked ELSE leaked \cup {Stream(s)}
  /\ UNCHANGED <<up, unsent, sessVars, disk, converted, kept, rivals, overlapped, stored, env>>

\* OnFileWriteStateResponse: the answer reaches the client.  It does not say
\* which upload it is about.
Answer(s, ok) ==
  IF orderly /\ client[s] = "busy"
  THEN /\ client' = [client EXCEPT ![s] = IF ok THEN "ready" ELSE "failed"]
       /\ up' = [up EXCEPT ![s] = @ + 1]
       /\ UNCHANGED unsent
  ELSE UNCHANGED clientVars

-----------------------------------------------------------------------------
(* FileSession *)

\* What one read returns: everything that has arrived.
Received(s, n) == FlattenSeq(SubSeq(inflight[s], 1, n))

CanRead(s, n) ==
  /\ ~exited
  /\ client[s] # "gone"
  /\ n \in 1 .. Len(inflight[s])
  /\ orderly => n = 1

Consume(s, n) ==
  inflight' = [inflight EXCEPT ![s] = SubSeq(@, n + 1, Len(@))]

\* The read begins with an object (or null), of which isMember can be asked.
IsObject(r) ==
  /\ Len(r) >= 2
  /\ r[1].kind = "head1"
  /\ r[2].kind = "head2"

\* reader.parse accepts the buffer: any value at its beginning will do.
Parses(r) == IsObject(r) \/ r[1].kind = "json"

\* isHTTPProtocol.
IsHttp(r) == r[1].kind = "http"

\* OnUploadFileResponse: is this read a head?
IsFileHead(s, r) == ~m_isState[s] /\ Parses(r)

\* Process chooses OnHttpResponse, which leaves the upload alone.
HttpRequest(s, n) ==
  /\ CanRead(s, n)
  /\ LET r == Received(s, n) IN ~Parses(r) /\ IsHttp(r)
  /\ Consume(s, n)
  /\ UNCHANGED <<clientVars, sessVars, fileVars, env>>

Upload(s, r) == Parses(r) \/ ~IsHttp(r)

\* The record a head names.
Announced(r) == script[r[1].from][r[1].up]

\* A head without an integer fileSize: "InvalidJSON".
HeadInvalid(s, n) ==
  /\ CanRead(s, n)
  /\ LET r == Received(s, n) IN IsFileHead(s, r) /\ IsObject(r) /\ Announced(r).size = -1
  /\ Consume(s, n)
  /\ m_isState' = [m_isState EXCEPT ![s] = FALSE]
  /\ Answer(s, FALSE)
  /\ UNCHANGED <<m_fp, pos, buffer, m_offset, m_filesize, fileVars, env>>

\* fopen fails: "FaildOpen".
HeadOpenFails(s, n) ==
  /\ CanRead(s, n)
  /\ LET r == Received(s, n) IN IsFileHead(s, r) /\ IsObject(r) /\ Announced(r).size # -1
  /\ Consume(s, n)
  /\ m_isState' = [m_isState EXCEPT ![s] = FALSE]
  /\ m_fp' = [m_fp EXCEPT ![s] = NoFile]
  /\ m_offset' = [m_offset EXCEPT ![s] = 0]
  /\ m_filesize' = [m_filesize EXCEPT ![s] = 0]
  /\ Answer(s, FALSE)
  /\ UNCHANGED <<pos, buffer, fileVars, env>>

\* Other sessions that have the file open and can still write to it.
Sharing(s, f) == {t \in Sessions \ {s} : m_fp[t] = f /\ client[t] # "gone"}

\* The head is accepted: fopen(..., "wb") truncates the file.  Whatever else
\* the read holds is dropped, and nothing is answered.
HeadOpens(s, n) ==
  /\ CanRead(s, n)
  /\ LET r == Received(s, n)
         f == Announced(r).name
     IN  /\ IsFileHead(s, r)
         /\ IsObject(r)
         /\ Announced(r).size # -1
         /\ m_fp' = [m_fp EXCEPT ![s] = f]
         /\ m_filesize' = [m_filesize EXCEPT ![s] = Announced(r).size]
         /\ disk' = [disk EXCEPT ![f] = << >>]
         /\ kept' = [kept EXCEPT ![f] = NoFile]
         /\ rivals' = [rivals EXCEPT ![f] = {}]
         /\ overlapped' = [t \in Sessions |->
              IF t = s THEN Sharing(s, f) # {}
              ELSE overlapped[t] \/ t \in Sharing(s, f)]
  /\ pos' = [pos EXCEPT ![s] = 0]
  /\ m_isState' = [m_isState EXCEPT ![s] = TRUE]
  /\ Consume(s, n)
  /\ UNCHANGED <<clientVars, buffer, m_offset, converted, leaked, stored, env>>

\* Slip: m_offset survives the end of an upload.
ResetKeepsOffset(s) ==
  /\ m_fp' = [m_fp EXCEPT ![s] = NoFile]
  /\ m_isState' = [m_isState EXCEPT ![s] = FALSE]
  /\ m_filesize' = [m_filesize EXCEPT ![s] = 0]
  /\ pos' = [pos EXCEPT ![s] = 0]
  /\ buffer' = [buffer EXCEPT ![s] = << >>]
  /\ UNCHANGED m_offset

\* The resets every end of an upload performs.
ResetUpload(s) ==
  /\ m_fp' = [m_fp EXCEPT ![s] = NoFile]
  /\ m_isState' = [m_isState EXCEPT ![s] = FALSE]
  /\ m_offset' = [m_offset EXCEPT ![s] = 0]
  /\ m_filesize' = [m_filesize EXCEPT ![s] = 0]
  /\ pos' = [pos EXCEPT ![s] = 0]
  /\ buffer' = [buffer EXCEPT ![s] = << >>]

\* Data without an open file: "FaildOpen".
DataNoFile(s, n) ==
  /\ CanRead(s, n)
  /\ LET r == Received(s, n) IN Upload(s, r) /\ ~IsFileHead(s, r)
  /\ m_fp[s] = NoFile
  /\ Consume(s, n)
  /\ ResetUpload(s)
  /\ Answer(s, FALSE)
  /\ UNCHANGED <<fileVars, env>>

\* The file after r was written at position p; a hole is filled with zeros.
WriteAt(file, p, r) ==
  IF r = << >> THEN file ELSE
  [k \in 1 .. (IF p + Len(r) > Len(file) THEN p + Len(r) ELSE Len(file)) |->
     IF k > p /\ k <= p + Len(r) THEN r[k - p]
     ELSE IF k <= Len(file) THEN file[k] ELSE Token("zero", NoFile, 0)]

\* The read with which an upload goes on: what it adds to the buffer.
IsData(s, n) ==
  /\ CanRead(s, n)
  /\ m_fp[s] # NoFile
  /\ LET r == Received(s, n) IN Upload(s, r) /\ ~IsFileHead(s, r)

Buffered(s, n) == buffer[s] \o Received(s, n)

\* The stream writes the first m bytes of bytes.
Flush(s, bytes, m) ==
  disk' = [disk EXCEPT ![m_fp[s]] = WriteAt(@, pos[s], SubSeq(bytes, 1, m))]

\* Slip: the stream is not closed.
DataWriteFailsNoClose(s, n) ==
  /\ IsData(s, n)
  /\ Consume(s, n)
  /\ leaked' = leaked \cup {Stream(s)}
  /\ ResetUpload(s)
  /\ Answer(s, FALSE)
  /\ UNCHANGED <<disk, converted, kept, rivals, overlapped, stored, env>>

\* fwrite fails, perhaps half way, and fclose writes what it can: "writeError".
DataWriteFails(s, n) ==
  /\ IsData(s, n)
  /\ \E m \in 0 .. Len(Buffered(s, n)) - 1 : Flush(s, Buffered(s, n), m)
  /\ Consume(s, n)
  /\ ResetUpload(s)
  /\ Answer(s, FALSE)
  /\ UNCHANGED <<converted, leaked, kept, rivals, overlapped, stored, env>>

\* Slip: the upload ends one byte early.
CompleteEarly(s, r) == Wrap(m_offset[s] + Len(r)) >= m_filesize[s] - 1

\* Slip: the last byte does not end the upload.
CompleteLate(s, r) == Wrap(m_offset[s] + Len(r)) > m_filesize[s]

\* The byte count has reached the announced size.
Complete(s, r) == Wrap(m_offset[s] + Len(r)) >= m_filesize[s]

\* Data that does not complete the file.
DataWritten(s, n) ==
  /\ IsData(s, n)
  /\ ~Complete(s, Received(s, n))
  /\ \E m \in 0 .. Len(Buffered(s, n)) :
       /\ Flush(s, Buffered(s, n), m)
       /\ pos' = [pos EXCEPT ![s] = @ + m]
       /\ buffer' = [buffer EXCEPT ![s] = SubSeq(Buffered(s, n), m + 1, Len(Buffered(s, n)))]
  /\ m_offset' = [m_offset EXCEPT ![s] = Wrap(@ + Len(Received(s, n)))]
  /\ Consume(s, n)
  /\ UNCHANGED <<clientVars, m_isState, m_fp, m_filesize, converted, leaked, kept, rivals, overlapped,
                 stored, env>>

\* Data that completes the file: fclose, whose failure nobody looks at, reset,
\* answer, and for a video run ffmpeg, whose failure nobody hears of.
DataCompletes(s, n) ==
  /\ IsData(s, n)
  /\ Complete(s, Received(s, n))
  /\ \E m \in 0 .. Len(Buffered(s, n)) :
       LET f == m_fp[s]
           flushed == m = Len(Buffered(s, n))
       IN  /\ Flush(s, Buffered(s, n), m)
           /\ stored' = stored \cup {[sess |-> s, up |-> up[s], size |-> m_filesize[s],
                                      content |-> disk'[f], flushed |-> flushed,
                                      overlapped |-> overlapped[s]]}
           /\ kept' = [kept EXCEPT ![f] = IF flushed THEN disk'[f] ELSE NoFile]
           /\ rivals' = [rivals EXCEPT ![f] = Sharing(s, f)]
  /\ Consume(s, n)
  /\ ResetUpload(s)
  /\ Answer(s, TRUE)
  /\ \/ m_fp[s] \in Videos /\ converted' = converted \cup {m_fp[s]}
     \/ UNCHANGED converted
  /\ UNCHANGED <<leaked, overlapped, env>>

-----------------------------------------------------------------------------
(* Downloads: what OnHttpResponse sends in answer to a GET *)

\* sendFileData
SendFileData(f) == IF disk[f] = NoFile THEN << >> ELSE disk[f]

\* packHTTPResponse and sendFileData: a head with the length, then the bytes; the
\* way through sendChunkedData, for a file that could not be opened, sends nothing.
SendPage(f) ==
  IF disk[f] = NoFile THEN << >> ELSE <<[length |-> Len(disk[f]), body |-> SendFileData(f)]>>

\* streamMedia_m3u8Str: a playlist naming the .ts of a video.
M3u8(f) == IF f \in converted THEN <<[length |-> 1, body |-> <<Token("plain", NoFile, 0)>>]>>
           ELSE << >>

\* OnHttpResponse: a download/ request gets the bytes without a head, and then what
\* the same request without download/ gets.
OnHttpResponse(f, download) ==
  (IF download /\ disk[f] # NoFile THEN <<[length |-> -1, body |-> SendFileData(f)]>> ELSE << >>)
  \o (IF f \in Videos THEN M3u8(f) ELSE SendPage(f))

-----------------------------------------------------------------------------
(* signal_exit *)

\* Streams exit() finds open.
Streams == leaked \cup {Stream(s) : s \in {t \in Sessions : m_fp[t] # NoFile /\ client[t] # "gone"}}

\* The files after the streams q were flushed one after the other.
Flushed(q) ==
  LET after[i \in 0 .. Len(q)] ==
        IF i = 0 THEN disk
        ELSE [after[i - 1] EXCEPT ![q[i].name] = WriteAt(@, q[i].pos, q[i].bytes)]
  IN  after[Len(q)]

\* exit() flushes them in some order.
CallExit ==
  /\ exited' = TRUE
  /\ \E q \in SetToSeqs(Streams) : disk' = Flushed(q)
  /\ UNCHANGED <<clientVars, inflight, sessVars, converted, leaked, kept, rivals, overlapped,
                 stored, fixed>>

\* A signal from outside.
Exit == ~exited /\ CallExit

\* A read that parses where a head is expected but holds no object: isMember
\* throws, nobody catches, and the handler of SIGABRT is signal_exit too.
HeadThrows(s, n) ==
  /\ CanRead(s, n)
  /\ LET r == Received(s, n) IN IsFileHead(s, r) /\ ~IsObject(r)
  /\ CallExit

-----------------------------------------------------------------------------

OnRead(s, n) ==
  \/ HttpRequest(s, n)
  \/ HeadInvalid(s, n)
  \/ HeadOpenFails(s, n)
  \/ HeadOpens(s, n)
  \/ HeadThrows(s, n)
  \/ DataNoFile(s, n)
  \/ DataWriteFails(s, n)
  \/ DataWritten(s, n)
  \/ DataCompletes(s, n)

ServerStep(s) == \E n \in 1 .. Len(inflight[s]) : OnRead(s, n)

ClientStep(s) == SendHead(s) \/ SkipWait(s) \/ \E n \in 1 .. IntMax : SendBody(s, n)

Next == Exit \/ \E s \in Sessions : ServerStep(s) \/ ClientStep(s) \/ Disconnect(s)

Spec == Init /\ [][Next]_vars

\* What has arrived is read, and a client that has sent a head sends its file.
FairSpec ==
  /\ Spec
  /\ \A s \in Sessions : WF_vars(ServerStep(s)) /\ WF_vars(\E n \in 1 .. IntMax : SendBody(s, n))

-----------------------------------------------------------------------------
(* Properties *)

\* The type invariant.
TypeOK ==
  /\ up \in [Sessions -> Nat \ {0}]
  /\ unsent \in [Sessions -> -1 .. IntMax]
  /\ client \in [Sessions -> {"ready", "busy", "failed", "gone"}]
  /\ m_isState \in [Sessions -> BOOLEAN]
  /\ m_fp \in [Sessions -> Names \cup {NoFile}]
  /\ pos \in [Sessions -> Nat]
  /\ m_offset \in [Sessions -> -(IntMax + 1) .. IntMax]
  /\ m_filesize \in [Sessions -> 0 .. IntMax]
  /\ \A n \in Names : disk[n] # NoFile =>
       disk[n] \in Seq([kind : {"head1", "head2", "plain", "http", "json", "zero"},
                        from : Sessions \cup {NoFile}, up : Nat])
  /\ converted \subseteq Videos
  /\ overlapped \in [Sessions -> BOOLEAN]
  /\ exited \in BOOLEAN

\* m_isState, m_fp and the two counters never disagree, whatever error path an
\* upload ended on and however reads were cut: a session waits for a head exactly
\* when it has no file open, and then starts counting from zero.
StateMatchesFile ==
  \A s \in Sessions :
    /\ m_isState[s] <=> m_fp[s] # NoFile
    /\ ~m_isState[s] => m_offset[s] = 0 /\ m_filesize[s] = 0

\* An upload answered with success left at least the announced number of bytes
\* on disk, unless another session opened the same file meanwhile or fclose failed;
\* cut, merged, pipelined and HTTP-looking reads included.
StoredAtLeastAnnounced ==
  \A r \in stored : r.overlapped \/ ~r.flushed \/ Len(r.content) >= r.size

\* For an orderly client an upload answered with success is on disk byte for
\* byte, unless another session opened the same file meanwhile; if fclose failed,
\* which the answer does not tell, it is at least a beginning of it.
StoredExactly ==
  orderly => \A r \in stored :
    \/ r.overlapped
    \/ /\ IsPrefix(r.content, Body(r.sess, r.up))
       /\ r.flushed => r.content = Body(r.sess, r.up)

\* Success means stored: what was announced for every client, byte for byte for
\* an orderly one.
StoredCompletely == StoredAtLeastAnnounced /\ StoredExactly

\* A session leaks at most one stream, by going away in the middle of an upload:
\* every error path closes what it opened.
LeaksOnlyAbandoned ==
  /\ \A l \in leaked : client[l.sess] = "gone"
  /\ \A k, l \in leaked : k.sess = l.sess => k = l

\* The fields of a session agree with the streams that are open, after every
\* error path.
SessionsConsistent == TypeOK /\ StateMatchesFile /\ LeaksOnlyAbandoned

\* An upload that was answered with success stays on disk as it was until the
\* file is uploaded again.  Two things can damage it: a session that had the same
\* file open when the answer was sent, with what it writes afterwards (nothing keeps
\* two uploads of one name apart), and exit(), with what an abandoned upload
\* of the file left in its stream.
StoredStays ==
  \A f \in Names :
    kept[f] # NoFile /\ disk[f] # kept[f] =>
      \/ rivals[f] # {}
      \/ exited /\ \E l \in leaked : client[l.sess] = "gone" /\ l.name = f /\ l.bytes # << >>

\* What was stored while nobody else had the file open can be fetched: a request
\* for a page gets one answer that holds it all and announces its length.
StoredIsServed ==
  \A f \in Names \ Videos :
    kept[f] # NoFile /\ rivals[f] = {} /\ ~exited =>
      OnHttpResponse(f, FALSE) = <<[length |-> Len(kept[f]), body |-> kept[f]]>>

\* What was stored is kept, and served as it is.
StoredIsKept == StoredStays /\ StoredIsServed

\* The upload a client is busy with holds no bytes, or bytes with which a read
\* looks like an HTTP request.
Unanswerable(s) == script[s][up[s]].size = 0 \/ script[s][up[s]].looks = "http"

\* For an orderly client every upload is answered, or the connection or the server
\* is gone, but for two kinds that may wait for ever: an empty file, whose end
\* is only noticed when something else arrives, and a file with a piece that begins like
\* an HTTP request line, because Process hands that piece to OnHttpResponse, the count
\* never reaches the announced size, and nothing is answered.
UploadsAnswered ==
  \A s \in Sessions :
    (orderly /\ client[s] = "busy" /\ ~Unanswerable(s)) ~> (client[s] # "busy" \/ exited)
=============================================================================
