--------------------------- MODULE CliprdrBackend ---------------------------
(***************************************************************************)
(* The clipboard on the WASM side, wasm/src/clipboard.rs: what is copied   *)
(* in the session reaches the host clipboard, files of the remote are      *)
(* downloaded in chunks when the user asks, and the remote pulls the file  *)
(* that the page offered.                                                  *)
(*                                                                         *)
(* The backend sends through the input queue of the session loop, which    *)
(* turns its messages into PDUs in order: the two are toRemote.  The       *)
(* remote answers from the clipboard it has at that moment, a FormatData   *)
(* request in its turn and FileContents requests in any order.  There are  *)
(* no clipboard locks: client_capabilities does not offer them.  Texts     *)
(* and images going the other way are PasteSync's.                         *)
(***************************************************************************)
EXTENDS Naturals, Sequences, FiniteSets, Functions, SequencesExt, FiniteSetsExt

CONSTANTS
  Copies,         \* what may be copied in the session: sets of formats
  Sizes,          \* the sizes of the files of a copy, in order
  CHUNK_SIZE,
  HostSizes,      \* the sizes of the files offered to the remote, one after the other
  EnableText, EnableFile,
  WritesFail,     \* is the tab ever unfocused when text arrives?
  Overlap,        \* is anything copied or read, or the focus lost, while something else is read
                  \* or written?
  MaxCopies,      \* bound: copies made in the session
  MaxReconnects   \* bound

Formats == {"text", "dibv5", "dib", "files"}

ASSUME CliprdrAssumption ==
  /\ Copies \subseteq SUBSET Formats
  /\ Sizes \in Seq(Nat) /\ HostSizes \in Seq(Nat)
  /\ CHUNK_SIZE \in Nat \ {0}
  /\ {EnableText, EnableFile, WritesFail, Overlap} \subseteq BOOLEAN
  /\ MaxCopies \in Nat /\ MaxReconnects \in Nat

VARIABLES
  (* the remote *)
  clip,            \* its clipboard: how many copies were made, and the formats of the last
  requests,        \* the FileContents requests it has yet to answer
  offer,           \* the file of ours it knows of, 0: none
  pull,            \* a paste of it: << >>, or what it has read so far
  pulled,          \* the last such paste that came to its end
  reconnects,
  (* the channel *)
  toRemote, toClient,
  (* WasmCliprdrBackend *)
  pendingFormat,   \* pending_format
  nextStreamId,
  fileTransfers,
  (* what outlives a session *)
  fileFormat,      \* is PENDING_REMOTE_FILE_FORMAT set?
  pendingFile,     \* PENDING_FILES: the number of the file, 0: none
  trapped,         \* has the module panicked?
  (* the page *)
  toast,           \* is the download notification shown?
  cached,          \* __rdp_remote_clipboard_text or _image: which copy, and what it was taken for
  retryWrite,      \* __rdp_remote_clipboard_pending
  retrying,        \* does checkHostClipboard await the write of it?
  hostClip,        \* the host clipboard: from the session or the host's own, and when
  saved            \* what download_file was given

remoteVars  == <<clip, requests, offer, pull, pulled, reconnects>>
backendVars == <<pendingFormat, nextStreamId, fileTransfers>>
lastingVars == <<fileFormat, pendingFile, trapped>>
pageVars    == <<toast, cached, retryWrite, retrying, hostClip, saved>>
vars == <<remoteVars, toRemote, toClient, backendVars, lastingVars, pageVars>>

-----------------------------------------------------------------------------
\* A byte of a file is known by where it comes from.
File(c, i) == [copy |-> c, index |-> i]
Bytes(f, from, to) == [k \in 1..(to - from) |-> <<f, from + k>>]
Whole(f)     == Bytes(f, 0, Sizes[f.index])
WholeHost(h) == Bytes(h, 0, HostSizes[h])

Indices == DOMAIN Sizes
Files   == [copy : 1..MaxCopies, index : Indices]

\* The messages of the channel.  The bytes of a text or an image are known by their copy.
Paste(f)       == [type |-> "paste", format |-> f]
FileSize(s, i) == [type |-> "size", id |-> s, index |-> i, position |-> 0, size |-> 8]
FileRange(s, i, p, n) == [type |-> "range", id |-> s, index |-> i, position |-> p, size |-> n]
FileOffer(h)   == [type |-> "offer", file |-> h]
RemoteCopy     == [type |-> "copy", formats |-> clip'.formats]
Data(f, c)     == [type |-> "data", format |-> f, copy |-> c]
Error(f)       == [type |-> "error", format |-> f]
FileList(c)    == [type |-> "filelist", format |-> "files", copy |-> c]
Contents(s, bs)     == [type |-> "contents", id |-> s, data |-> bs]
ContentsSize(s, n)  == [type |-> "total", id |-> s, size |-> n]
ContentsError(s)    == [type |-> "failed", id |-> s]

Init ==
  /\ clip = [n |-> 0, formats |-> {}] /\ requests = {} /\ offer = 0 /\ pull = << >>
  /\ pulled = << >> /\ reconnects = 0
  /\ toRemote = << >> /\ toClient = << >>
  /\ pendingFormat = "none" /\ nextStreamId = 1 /\ fileTransfers = << >>
  /\ fileFormat = FALSE /\ pendingFile = 0 /\ trapped = FALSE
  /\ toast = FALSE /\ retryWrite = FALSE /\ retrying = FALSE /\ saved = {}
  /\ cached = [n |-> 0, as |-> "none", sound |-> TRUE]
  /\ hostClip = [own |-> TRUE, n |-> 0]

SendToRemote(m) == toRemote' = Append(toRemote, m)
SendToClient(m) == toClient' = Append(toClient, m)

-----------------------------------------------------------------------------
\* on_remote_copy: text before an image before the file list.
Wanted(formats) ==
  IF EnableText /\ "text" \in formats THEN "text"
  ELSE IF EnableText /\ "dibv5" \in formats THEN "dibv5"
  ELSE IF EnableText /\ "dib" \in formats THEN "dib"
  ELSE IF EnableFile /\ "files" \in formats THEN "files" ELSE "none"

\* The formats of which data is on its way, or will be.
Unanswered ==
  LET Of(queue, types) == {m.format : m \in {x \in Range(queue) : x.type \in types}}
      copies == {m \in Range(toClient) : m.type = "copy"}
  IN  Of(toRemote, {"paste"}) \cup Of(toClient, {"data", "error", "filelist"})
      \cup ({Wanted(m.formats) : m \in copies} \ {"files", "none"})

\* Nothing that is being read is of another kind than what is copied now.
Undisturbed(formats) ==
  /\ DOMAIN fileTransfers = {} /\ pull = << >> /\ "files" \notin Unanswered
  /\ Wanted(formats) \in {"files", "none"} \/ Unanswered \subseteq {Wanted(formats)}

\* Nothing is being read.
Quiet == DOMAIN fileTransfers = {} /\ pull = << >> /\ toRemote = << >> /\ toClient = << >>

\* Something is copied in the session.
RemoteCopies(formats) ==
  /\ clip.n < MaxCopies
  /\ Overlap \/ Undisturbed(formats)
  /\ clip' = [n |-> clip.n + 1, formats |-> formats]
  /\ SendToClient(RemoteCopy)
  /\ UNCHANGED <<requests, offer, pull, pulled, reconnects, toRemote, backendVars, lastingVars, pageVars>>

\* on_remote_copy: a request notes its format over that of an earlier one.
OnRemoteCopy ==
  /\ ~trapped /\ toClient # << >> /\ Head(toClient).type = "copy"
  /\ LET want == Wanted(Head(toClient).formats)
     IN  /\ toClient' = Tail(toClient)
         /\ \/ /\ want \in {"text", "dibv5", "dib"}
               /\ pendingFormat' = want
               /\ SendToRemote(Paste(want))
               /\ UNCHANGED <<fileFormat, toast>>
            \/ /\ want = "files"
               /\ fileFormat' = TRUE /\ toast' = TRUE
               /\ UNCHANGED <<pendingFormat, toRemote>>
            \/ /\ want = "none"
               /\ UNCHANGED <<pendingFormat, toRemote, fileFormat, toast>>
  /\ UNCHANGED <<remoteVars, nextStreamId, fileTransfers, pendingFile, trapped,
                 cached, retryWrite, retrying, hostClip, saved>>

\* The Download button of the notification: trigger_remote_file_download.
Download ==
  /\ ~trapped /\ toast
  /\ Overlap \/ (DOMAIN fileTransfers = {} /\ pull = << >> /\ Unanswered = {})
  /\ toast' = FALSE
  /\ IF fileFormat THEN SendToRemote(Paste("files")) ELSE UNCHANGED toRemote
  /\ UNCHANGED <<remoteVars, toClient, backendVars, lastingVars, cached, retryWrite, retrying, hostClip, saved>>

\* The remote answers a FormatData request, with an error for what its clipboard lacks.
RemoteGivesData ==
  /\ toRemote # << >> /\ Head(toRemote).type = "paste"
  /\ toRemote' = Tail(toRemote)
  /\ LET f == Head(toRemote).format
     IN  SendToClient(IF f \notin clip.formats THEN Error(f)
                      ELSE IF f = "files" THEN FileList(clip.n) ELSE Data(f, clip.n))
  /\ UNCHANGED <<remoteVars, backendVars, lastingVars, pageVars>>

\* A write fails while the tab has no focus: a write that is awaited began with it.
Unfocused == WritesFail /\ (Overlap \/ ~retrying)

\* Mutant: what could not be written is not cached either.
WriteHostUncached(c, as, sound) ==
  \/ /\ cached' = [n |-> c, as |-> as, sound |-> sound]
     /\ hostClip' = [own |-> FALSE, n |-> c]
     /\ retryWrite' = (as # "text" /\ retryWrite)
  \/ /\ Unfocused
     /\ retryWrite' = (as = "text" \/ retryWrite)
     /\ UNCHANGED <<cached, hostClip>>

\* Mutant: a failed write is not kept for later.
WriteHostOnce(c, as, sound) ==
  /\ cached' = [n |-> c, as |-> as, sound |-> sound]
  /\ \/ /\ hostClip' = [own |-> FALSE, n |-> c]
        /\ retryWrite' = (as # "text" /\ retryWrite)
     \/ /\ Unfocused
        /\ UNCHANGED <<retryWrite, hostClip>>

\* write_clipboard_text and write_clipboard_image: a text that could not be written is
\* kept for the next focus, an image only for Ctrl+C.
WriteHost(c, as, sound) ==
  /\ cached' = [n |-> c, as |-> as, sound |-> sound]
  /\ \/ /\ hostClip' = [own |-> FALSE, n |-> c]
        /\ retryWrite' = (as # "text" /\ retryWrite)
     \/ /\ Unfocused
        /\ retryWrite' = (as = "text" \/ retryWrite)
        /\ UNCHANGED hostClip

\* on_format_data_response: the data is read as what was requested last.  Bytes of an
\* image are no text, but read as one; other bytes are no image, and are not written.
OnFormatData ==
  /\ ~trapped /\ toClient # << >> /\ Head(toClient).type = "data"
  /\ LET m == Head(toClient)
     IN  \/ /\ pendingFormat # "none"
            /\ pendingFormat \in {"text", m.format}
            /\ WriteHost(m.copy, pendingFormat, pendingFormat = m.format)
         \/ /\ pendingFormat \notin {"text", m.format}
            /\ UNCHANGED <<cached, retryWrite, hostClip>>
  /\ pendingFormat' = "none"
  /\ toClient' = Tail(toClient)
  /\ UNCHANGED <<remoteVars, toRemote, nextStreamId, fileTransfers, lastingVars, toast, retrying, saved>>

OnFormatError ==
  /\ ~trapped /\ toClient # << >> /\ Head(toClient).type = "error"
  /\ pendingFormat' = "none"
  /\ toClient' = Tail(toClient)
  /\ UNCHANGED <<remoteVars, toRemote, nextStreamId, fileTransfers, lastingVars, pageVars>>

\* checkHostClipboard, when the tab has the focus: the text that could not be written is
\* written, and when that is done the flag is taken back.
RetryWrite ==
  /\ ~trapped /\ retryWrite /\ ~retrying /\ cached.as = "text"
  /\ hostClip' = [own |-> FALSE, n |-> cached.n]
  /\ retrying' = TRUE
  /\ UNCHANGED <<remoteVars, toRemote, toClient, backendVars, lastingVars, toast, cached, retryWrite, saved>>

RetryWritten ==
  /\ retrying
  /\ retrying' = FALSE /\ retryWrite' = FALSE
  /\ UNCHANGED <<remoteVars, toRemote, toClient, backendVars, lastingVars, toast, cached, hostClip, saved>>

\* Something is copied on the host, outside the session.
HostCopies ==
  /\ hostClip' = [own |-> TRUE, n |-> cached.n]
  /\ UNCHANGED <<remoteVars, toRemote, toClient, backendVars, lastingVars, toast, cached, retryWrite, retrying, saved>>

-----------------------------------------------------------------------------
\* Downloads: a size and then ranges for each file, each under a stream id of its own.

\* on_remote_file_list: request_file_size for every file.
OnRemoteFileList ==
  /\ ~trapped /\ toClient # << >> /\ Head(toClient).type = "filelist"
  /\ LET c == Head(toClient).copy
         next == nextStreamId + Len(Sizes)
         New(s) == [size |-> TRUE, file |-> File(c, s - nextStreamId + 1), total |-> 0, data |-> << >>]
     IN  /\ fileTransfers' = [s \in DOMAIN fileTransfers \cup (nextStreamId .. next - 1) |->
                                IF s \in nextStreamId .. next - 1 THEN New(s) ELSE fileTransfers[s]]
         /\ toRemote' = toRemote \o [i \in Indices |-> FileSize(nextStreamId + i - 1, i)]
         /\ nextStreamId' = next
  /\ toClient' = Tail(toClient)
  /\ UNCHANGED <<remoteVars, pendingFormat, lastingVars, pageVars>>

RemoteTakes ==
  /\ toRemote # << >> /\ Head(toRemote).type \in {"size", "range"}
  /\ requests' = requests \cup {Head(toRemote)}
  /\ toRemote' = Tail(toRemote)
  /\ UNCHANGED <<clip, offer, pull, pulled, reconnects, toClient, backendVars, lastingVars, pageVars>>

\* The remote answers with the size, with some of the bytes asked for (none at the end of
\* the file), or with an error: its clipboard has no such file, or it cannot read it.
RemoteGivesContents(r) ==
  /\ requests' = requests \ {r}
  /\ \/ SendToClient(ContentsError(r.id))
     \/ /\ "files" \in clip.formats
        /\ \/ r.type = "size" /\ SendToClient(ContentsSize(r.id, Sizes[r.index]))
           \/ /\ r.type = "range" /\ r.position < Sizes[r.index]
              /\ \E to \in r.position + 1 .. Min({r.position + r.size, Sizes[r.index]}) :
                    SendToClient(Contents(r.id, Bytes(File(clip.n, r.index), r.position, to)))
           \/ /\ r.type = "range" /\ r.position >= Sizes[r.index]
              /\ SendToClient(Contents(r.id, << >>))
  /\ UNCHANGED <<clip, offer, pull, pulled, reconnects, toRemote, backendVars, lastingVars, pageVars>>

With(f, x, v) == [y \in DOMAIN f \cup {x} |-> IF y = x THEN v ELSE f[y]]

\* request_file_range: `rest' are the transfers without this one.
Continue(rest, t, total, data) ==
  LET chunk == Min({total - Min({Len(data), total}), CHUNK_SIZE})
  IN  \/ /\ chunk = 0
         /\ saved' = saved \cup {[file |-> t.file, data |-> data]}
         /\ fileTransfers' = rest
         /\ UNCHANGED <<toRemote, nextStreamId>>
      \/ /\ chunk # 0
         /\ fileTransfers' = With(rest, nextStreamId,
              [size |-> FALSE, file |-> t.file, total |-> total, data |-> data])
         /\ nextStreamId' = nextStreamId + 1
         /\ SendToRemote(FileRange(nextStreamId, t.file.index, Len(data), chunk))
         /\ UNCHANGED saved

\* Mutant: an error leaves the transfer waiting.
OnFileContentsKept ==
  /\ ~trapped /\ toClient # << >>
  /\ Head(toClient).type \in {"contents", "total", "failed"}
  /\ toClient' = Tail(toClient)
  /\ LET m == Head(toClient)
         rest == Restrict(fileTransfers, DOMAIN fileTransfers \ {m.id})
         t == fileTransfers[m.id]
     IN  \/ /\ \/ m.id \notin DOMAIN fileTransfers
               \/ m.type = "failed"
            /\ UNCHANGED <<fileTransfers, toRemote, nextStreamId, saved>>
         \/ /\ m.id \in DOMAIN fileTransfers /\ t.size /\ m.type = "total"
            /\ Continue(rest, t, m.size, << >>)
         \/ /\ m.id \in DOMAIN fileTransfers /\ ~t.size /\ m.type = "contents"
            /\ Continue(rest, t, t.total, t.data \o m.data)
  /\ UNCHANGED <<remoteVars, pendingFormat, lastingVars, toast, cached, retryWrite, retrying, hostClip>>

\* on_file_contents_response: an error drops the transfer, an answer to no transfer is
\* ignored.  The remote answers a request for a size with one, and a range with bytes.
OnFileContents ==
  /\ ~trapped /\ toClient # << >>
  /\ Head(toClient).type \in {"contents", "total", "failed"}
  /\ toClient' = Tail(toClient)
  /\ LET m == Head(toClient)
         rest == Restrict(fileTransfers, DOMAIN fileTransfers \ {m.id})
         t == fileTransfers[m.id]
     IN  \/ /\ \/ m.id \notin DOMAIN fileTransfers
               \/ m.type = "failed"
            /\ fileTransfers' = rest
            /\ UNCHANGED <<toRemote, nextStreamId, saved>>
         \/ /\ m.id \in DOMAIN fileTransfers /\ t.size /\ m.type = "total"
            /\ Continue(rest, t, m.size, << >>)
         \/ /\ m.id \in DOMAIN fileTransfers /\ ~t.size /\ m.type = "contents"
            /\ Continue(rest, t, t.total, t.data \o m.data)
  /\ UNCHANGED <<remoteVars, pendingFormat, lastingVars, toast, cached, retryWrite, retrying, hostClip>>

-----------------------------------------------------------------------------
\* Uploads: the remote reads the file the page offers, if it is pasted there.

\* set_pending_clipboard_file and send_file_copy: one slot, replaced by the next file.
HostOffersFile ==
  /\ ~trapped /\ pendingFile < Len(HostSizes)
  /\ Overlap \/ Quiet
  /\ pendingFile' = pendingFile + 1
  /\ SendToRemote(FileOffer(pendingFile'))
  /\ UNCHANGED <<remoteVars, toClient, backendVars, fileFormat, trapped, pageVars>>

RemoteTakesOffer ==
  /\ toRemote # << >> /\ Head(toRemote).type = "offer"
  /\ offer' = Head(toRemote).file
  /\ toRemote' = Tail(toRemote)
  /\ UNCHANGED <<clip, requests, pull, pulled, reconnects, toClient, backendVars, lastingVars, pageVars>>

AskRange(p) == [type |-> "ask", position |-> p, size |-> CHUNK_SIZE]

\* Our file is pasted in the session: the descriptor of the offer gives its size.
RemotePulls ==
  /\ offer # 0 /\ pull = << >> /\ pulled = << >>
  /\ Overlap \/ Quiet
  /\ pull' = <<[file |-> offer, data |-> << >>]>>
  /\ SendToClient(AskRange(0))
  /\ UNCHANGED <<clip, requests, offer, pulled, reconnects, toRemote, backendVars, lastingVars, pageVars>>

\* Mutant: the last byte of the file is left out.
OnFileContentsRequestShort ==
  /\ ~trapped /\ toClient # << >> /\ Head(toClient).type = "ask"
  /\ LET start == Head(toClient).position
         end == Min({start + Head(toClient).size, HostSizes[pendingFile] - 1})
     IN  \/ /\ ~EnableFile \/ pendingFile = 0
            /\ SendToRemote([type |-> "refused"])
            /\ UNCHANGED trapped
         \/ /\ EnableFile /\ pendingFile # 0
            /\ trapped' = (start > end)
            /\ IF start > end THEN UNCHANGED toRemote
               ELSE SendToRemote([type |-> "given", data |-> Bytes(pendingFile, start, end)])
  /\ toClient' = Tail(toClient)
  /\ UNCHANGED <<remoteVars, backendVars, fileFormat, pendingFile, pageVars>>

\* on_file_contents_request: the slice data[start..end] panics when the file has become
\* shorter than the position.  Left out: a request for the size, which the remote has from
\* the descriptor and which changes nothing here, and positions beyond usize, which no file
\* that the module holds in memory has.
OnFileContentsRequest ==
  /\ ~trapped /\ toClient # << >> /\ Head(toClient).type = "ask"
  /\ LET start == Head(toClient).position
         end == Min({start + Head(toClient).size, HostSizes[pendingFile]})
     IN  \/ /\ ~EnableFile \/ pendingFile = 0
            /\ SendToRemote([type |-> "refused"])
            /\ UNCHANGED trapped
         \/ /\ EnableFile /\ pendingFile # 0
            /\ trapped' = (start > end)
            /\ IF start > end THEN UNCHANGED toRemote
               ELSE SendToRemote([type |-> "given", data |-> Bytes(pendingFile, start, end)])
  /\ toClient' = Tail(toClient)
  /\ UNCHANGED <<remoteVars, backendVars, fileFormat, pendingFile, pageVars>>

RemoteTakesRange ==
  /\ toRemote # << >> /\ Head(toRemote).type \in {"given", "refused"}
  /\ toRemote' = Tail(toRemote)
  /\ LET m == Head(toRemote)
         data == pull[1].data \o m.data
     IN  \/ /\ m.type = "refused"
            /\ pull' = << >> /\ UNCHANGED <<pulled, toClient>>
         \/ /\ m.type = "given"
            /\ \/ /\ m.data = << >> \/ Len(data) >= HostSizes[pull[1].file]
                  /\ pull' = << >> /\ pulled' = <<[pull[1] EXCEPT !.data = data]>>
                  /\ UNCHANGED toClient
               \/ /\ m.data # << >> /\ Len(data) < HostSizes[pull[1].file]
                  /\ pull' = <<[pull[1] EXCEPT !.data = data]>>
                  /\ SendToClient(AskRange(Len(data)))
                  /\ UNCHANGED pulled
  /\ UNCHANGED <<clip, requests, offer, reconnects, backendVars, lastingVars, pageVars>>

-----------------------------------------------------------------------------
\* A new session: a new backend and a new channel, on which the remote tells what its
\* clipboard holds.  What the thread-locals and the page keep stays.
Reconnect ==
  /\ ~trapped /\ reconnects < MaxReconnects
  /\ reconnects' = reconnects + 1
  /\ pendingFormat' = "none" /\ nextStreamId' = 1 /\ fileTransfers' = << >>
  /\ requests' = {} /\ offer' = 0 /\ pull' = << >> /\ toRemote' = << >>
  /\ UNCHANGED clip
  /\ toClient' = IF clip.n = 0 THEN << >> ELSE <<RemoteCopy>>
  /\ UNCHANGED <<pulled, lastingVars, pageVars>>

Next ==
  \/ \E formats \in Copies : RemoteCopies(formats)
  \/ RemoteGivesData \/ RemoteTakes \/ \E r \in requests : RemoteGivesContents(r)
  \/ OnRemoteCopy \/ OnFormatData \/ OnFormatError \/ OnRemoteFileList \/ OnFileContents
  \/ Download \/ RetryWrite \/ RetryWritten \/ HostCopies
  \/ HostOffersFile \/ RemoteTakesOffer \/ RemotePulls \/ OnFileContentsRequest \/ RemoteTakesRange
  \/ Reconnect

Spec == Init /\ [][Next]_vars

\* Both ends handle what arrives, and the tab is looked at again.
FairSpec ==
  /\ Spec
  /\ WF_vars(RemoteGivesData) /\ WF_vars(RemoteTakes) /\ WF_vars(RemoteTakesOffer) /\ WF_vars(RemoteTakesRange)
  /\ WF_vars(\E r \in requests : RemoteGivesContents(r))
  /\ WF_vars(OnRemoteCopy) /\ WF_vars(OnFormatData) /\ WF_vars(OnFormatError)
  /\ WF_vars(OnRemoteFileList) /\ WF_vars(OnFileContents) /\ WF_vars(OnFileContentsRequest)
  /\ WF_vars(RetryWrite) /\ WF_vars(RetryWritten)

-----------------------------------------------------------------------------
TypeOK ==
  /\ clip.n \in 0..MaxCopies /\ clip.formats \subseteq Formats
  /\ pendingFormat \in {"none", "text", "dibv5", "dib"}
  /\ nextStreamId \in Nat \ {0}
  /\ \A s \in DOMAIN fileTransfers : s < nextStreamId /\ fileTransfers[s].file \in Files
  /\ offer \in 0..Len(HostSizes) /\ pendingFile \in 0..Len(HostSizes)
  /\ cached.n \in 0..MaxCopies
  /\ hostClip \in [own : BOOLEAN, n : 0..MaxCopies]
  /\ {fileFormat, trapped, toast, retryWrite, retrying} \subseteq BOOLEAN

\* What is read of an answer is read as the format the answer has: pending_format is the
\* format "most recently requested from the remote (to interpret the response)"
\* (clipboard.rs:192).  It is one slot, and the response that comes next may be that to an
\* earlier request.
ReadAsRequested == cached.sound

\* When nothing is on its way, the page has the last thing copied in the session, if it is
\* one that it asks for.
HostCatchesUp ==
  (toRemote = << >> /\ toClient = << >> /\ ~trapped /\ clip.n > 0
    /\ Wanted(clip.formats) \notin {"files", "none"})
  => cached = [n |-> clip.n, as |-> Wanted(clip.formats), sound |-> TRUE]

\* A text that came while the tab was unfocused is on the host clipboard in the end, unless
\* something later was copied, there or in the session.
TextLands ==
  \A c \in 1..MaxCopies :
    (cached.n = c /\ cached.as = "text") ~> (hostClip.n >= c \/ cached.n > c \/ trapped)

\* What is copied on the host after the session's last copy came in is not overwritten by
\* that copy or one before it.
HostCopyKept ==
  [][hostClip.own /\ ~hostClip'.own => hostClip'.n > hostClip.n]_vars

\* Downloads save whole files, and each ends.
Fetch == INSTANCE FileFetch WITH
  Files   <- Files,
  Content <- Whole,
  asked   <- {fileTransfers[s].file : s \in DOMAIN fileTransfers},
  saved   <- saved
ImplementsFetch == Fetch!LiveSpec

\* A saved file is one copied in the session, all of it.
SavedWhole == \A d \in saved : d.data = Whole(d.file)

\* The remote reads the file it was offered, all of it.
PulledWhole ==
  \A k \in DOMAIN pulled : pulled[k].data = WholeHost(pulled[k].file)

\* The module does not panic on a request of the remote.
NeverTraps == ~trapped
=============================================================================
