-------------------------------- MODULE Scp --------------------------------
(***************************************************************************)
(* The embedded scp client (wstunnel/src/protocols/ssh/scp.rs): one upload *)
(* or download of a file or a tree, over an ssh channel inside a tunnel.   *)
(*                                                                         *)
(* The protocol has a sender, which walks the tree, and a receiver, which  *)
(* rebuilds it; the sender goes on after each record only when the         *)
(* receiver has answered.  In an upload the client is the sender and the   *)
(* remote scp the receiver, in a download the other way round: `snd' and   *)
(* `rcv' are the states of the two, and the remote one is external.        *)
(*                                                                         *)
(* `data' is the stream of bytes to the receiver, a token for a header, a  *)
(* byte or a chunk of a file.  The channel cuts it into messages anywhere; *)
(* what the client reads and can find cut, a header or the text of an      *)
(* error, is two tokens.                                                   *)
(*                                                                         *)
(* The remote scp is that of OpenSSH: as a receiver it reads its records   *)
(* line by line and refuses one with a warning; as a sender it goes on     *)
(* after a warning without waiting for an answer.                          *)
(***************************************************************************)
EXTENDS Integers, SequencesExt, TLC

CONSTANTS
  Files, Dirs,  \* the names in the tree, each of them used once
  Entries,      \* what each directory contains
  Size,         \* chunks of each file
  Texts,        \* the files with a newline in each chunk; the others have none
  Roots         \* what may be asked for

VARIABLES
  upload, recursive, root,  \* the command line
  snd, rcv,   \* where the sender and the receiver are
  walk,       \* the directories the sender is in, and what is left of each
  file,       \* the file being sent
  at,         \* the directory the receiver is in
  target,     \* the path of the file being received
  remaining,  \* chunks of the current file the receiver still waits for
  data,       \* tokens on their way to the receiver
  replies,    \* answers on their way to the sender
  dest,       \* what the receiver has made: path to contents
  warned,     \* a warning was printed
  odd         \* what happened that the protocol does not provide for

cmdVars == <<upload, recursive, root>>
sndVars == <<snd, walk, file>>
rcvVars == <<rcv, at, target, remaining, dest>>
vars == <<cmdVars, sndVars, rcvVars, data, replies, warned, odd>>

Tok(kind, name, n) == [kind |-> kind, name |-> name, n |-> n]
Status(code) == Tok(code, "", 0)
Bytes(f, n) == [i \in 1 .. n |-> Tok("byte", f, i)]
Ended(state) == state \in {"done", "failed"}
Lost == "lost" \in odd

Init ==
  /\ upload \in BOOLEAN /\ recursive \in BOOLEAN /\ root \in Roots
  /\ snd = "connect" /\ rcv = "connect"
  /\ walk = << >> /\ file = "" /\ at = << >> /\ target = << >> /\ remaining = 0
  /\ data = << >> /\ replies = << >> /\ dest = << >>
  /\ warned = FALSE /\ odd = {}

\* connect_ssh and channel_open_session wait for the remote sshd, without a time
\* limit; then the remote command is started.  The receiver of an upload, and
\* the client itself in a download, answers first.  A command that the remote
\* side does not run is reported in a message the client passes over.
Connect ==
  /\ snd = "connect"
  /\ \/ snd' = "hello" /\ rcv' = "record" /\ replies' = <<"0">> /\ UNCHANGED odd
     \/ snd' = "hello" /\ rcv' = "record" /\ odd' = {"not run"} /\ UNCHANGED replies
     \/ snd' = "failed" /\ rcv' = "failed" /\ UNCHANGED <<replies, odd>>
  /\ UNCHANGED <<cmdVars, walk, file, at, target, remaining, dest, data, warned>>

\* The connection is lost; what has arrived can still be read.
Lose ==
  /\ ~Lost /\ snd # "connect" /\ ~Ended(snd)
  /\ odd' = odd \cup {"lost"}
  /\ UNCHANGED <<cmdVars, sndVars, rcvVars, data, replies, warned>>

-----------------------------------------------------------------------------
(* The sender: scp_upload, upload_file and upload_dir, or the remote scp. *)

Say(tokens, state) == data' = data \o tokens /\ snd' = state

Header(kind, x, n) ==
  IF upload THEN <<Tok(kind, x, n)>> ELSE <<Tok(kind, x, n), Tok("rest", x, 0)>>

\* What cannot be read ends an upload; the remote sender warns and goes on.
GiveUp(x) ==
  IF upload THEN snd' = "failed" /\ UNCHANGED data
  ELSE Say(Header("1", x, 0), "next")

\* The header of a directory, or of a file and its size.
Visit(x, upTo) ==
  \/ /\ x \in Dirs
     /\ Say(Header("D", x, 0), "mkdir")
     /\ walk' = Append(upTo, [dir |-> x, left |-> Entries[x]])
     /\ UNCHANGED file
  \/ /\ x \in Files
     /\ Say(Header("C", x, Size[x]), "header")
     /\ file' = x /\ walk' = upTo
  \/ GiveUp(x) /\ walk' = upTo /\ UNCHANGED file

SendRoot ==
  /\ snd = "root"
  /\ IF root \in Dirs /\ ~recursive THEN GiveUp(root) /\ UNCHANGED <<walk, file>>
     ELSE Visit(root, << >>)
  /\ UNCHANGED <<cmdVars, rcvVars, replies, warned, odd>>

\* The next entry of the directory, the way back to its parent, or the end.
SendNext ==
  /\ snd = "next"
  /\ \/ /\ walk = << >>
        /\ snd' = "done" /\ UNCHANGED <<data, walk, file>>
     \/ /\ walk # << >> /\ Last(walk).left = {}
        /\ Say(<<Status("E")>>, "leave")
        /\ walk' = Front(walk) /\ UNCHANGED file
     \/ /\ walk # << >>
        /\ \E x \in Last(walk).left :
             Visit(x, [walk EXCEPT ![Len(walk)].left = @ \ {x}])
  /\ UNCHANGED <<cmdVars, rcvVars, replies, warned, odd>>

\* The file is read only now: it may have another size than its header says.
\* (The remote sender keeps to the size, with any bytes, and reports what went
\* wrong in the status.)
SendFile ==
  /\ snd = "read"
  /\ LET x == file
     IN \/ /\ upload
           /\ \E n \in {Size[x] - 1, Size[x], Size[x] + 1} \cap Nat :
                /\ Say(Bytes(x, n) \o <<Status("0")>>, "status")
                /\ odd' = IF n = Size[x] THEN odd ELSE odd \cup {"changed"}
        \/ /\ ~upload
           /\ \/ /\ Say(Bytes(x, Size[x]) \o <<Status("0")>>, "status")
                 /\ UNCHANGED odd
              \/ /\ Say(Bytes("", Size[x]) \o Header("1", x, 0), "status")
                 /\ odd' = odd \cup {"error status"}
        \/ upload /\ snd' = "failed" /\ UNCHANGED <<data, odd>>
  /\ UNCHANGED <<cmdVars, walk, file, rcvVars, replies, warned>>

AfterReply(state) ==
  CASE state = "hello" -> "root"
    [] state = "header" -> "read"
    [] state \in {"status", "mkdir", "leave"} -> "next"
Awaiting == {"hello", "header", "status", "mkdir", "leave"}

\* recv_response: the first byte of a message decides, the rest is dropped; the
\* text of a warning that comes in a message of its own is no answer.  A warning
\* counts as success.  The end of the channel is an error.
RecvResponse ==
  /\ upload /\ snd \in Awaiting
  /\ \/ \E k \in 1 .. Len(replies) :
          /\ replies' = SubSeq(replies, k + 1, Len(replies))
          /\ snd' = IF replies[1] \in {"0", "1"} THEN AfterReply(snd) ELSE "failed"
          /\ warned' = (warned \/ replies[1] = "1")
     \/ /\ replies = << >> /\ (Lost \/ Ended(rcv))
        /\ snd' = "failed" /\ UNCHANGED <<replies, warned>>
  /\ UNCHANGED <<cmdVars, walk, file, rcvVars, data, odd>>

\* The remote sender takes the acknowledgements of the client one by one.
RemoteReply ==
  /\ ~upload /\ snd \in Awaiting
  /\ replies # << >>
  /\ replies' = Tail(replies)
  /\ snd' = AfterReply(snd)
  /\ UNCHANGED <<cmdVars, walk, file, rcvVars, data, warned, odd>>

-----------------------------------------------------------------------------
(* The remote receiver of an upload. *)

Answer(code) ==
  replies' = replies \o (IF code = "0" THEN <<code>> ELSE <<code, "text">>)

\* The sink reads up to a newline: every header has one, a status has none.
EndsLine(t) == t.kind \in {"C", "D", "E"} \/ t.name \in Texts
Line(n) == EndsLine(data[n]) /\ \A i \in 1 .. n - 1 : ~EndsLine(data[i])

\* A record is carried out or refused with a warning; one `E' too many ends the
\* remote scp, and so does, with an error, a line that is no record.  A line of
\* contents may read as a warning, which is not answered.
RemoteRecord ==
  /\ upload /\ rcv = "record"
  /\ \E n \in 1 .. Len(data) :
       /\ Line(n)
       /\ LET h == data[1]
              path == Append(at, h.name)
          IN \/ /\ h.kind = "C" /\ Answer("0")
                /\ rcv' = "data" /\ remaining' = h.n /\ target' = path
                /\ dest' = (path :> << >>) @@ dest /\ UNCHANGED <<at, odd>>
             \/ /\ h.kind = "D" /\ Answer("0")
                /\ at' = path /\ dest' = (path :> <<Status("D")>>) @@ dest
                /\ UNCHANGED <<rcv, target, remaining, odd>>
             \/ /\ h.kind \in {"C", "D"} /\ Answer("1")
                /\ odd' = odd \cup {"refused"} /\ UNCHANGED rcvVars
             \/ /\ h.kind = "E" /\ Answer("0")
                /\ IF at # << >> THEN at' = Front(at) /\ UNCHANGED rcv
                   ELSE rcv' = "done" /\ UNCHANGED at
                /\ UNCHANGED <<target, remaining, dest, odd>>
             \/ /\ h.kind \notin {"C", "D", "E"} /\ \E code \in {"1", "2"} : Answer(code)
                /\ rcv' = "failed" /\ UNCHANGED <<at, target, remaining, dest, odd>>
             \/ h.kind = "byte" /\ UNCHANGED <<rcvVars, replies, odd>>
       /\ data' = SubSeq(data, n + 1, Len(data))
  /\ UNCHANGED <<cmdVars, sndVars, warned>>

\* A file is its contents and a status.  A byte of a file in the place of the
\* status may be any byte; a write error is a warning.
RemoteFile ==
  /\ upload /\ rcv = "data" /\ Len(data) > remaining
  /\ \/ /\ data[remaining + 1].kind \in {"0", "byte"} /\ rcv' = "record"
        /\ data' = SubSeq(data, remaining + 2, Len(data))
        /\ \/ Answer("0") /\ dest' = [dest EXCEPT ![target] = SubSeq(data, 1, remaining)]
           \/ Answer("1") /\ UNCHANGED dest
     \/ /\ data[remaining + 1].kind # "0" /\ rcv' = "message"
        /\ data' = SubSeq(data, remaining + 1, Len(data)) /\ UNCHANGED <<replies, dest>>
  /\ UNCHANGED <<cmdVars, sndVars, at, target, remaining, warned, odd>>

\* A status that is no status is read to the end of its line and is fatal.
RemoteMessage ==
  /\ upload /\ rcv = "message" /\ \E n \in 1 .. Len(data) : Line(n)
  /\ rcv' = "failed"
  /\ UNCHANGED <<cmdVars, sndVars, at, target, remaining, dest, data, replies, warned, odd>>

-----------------------------------------------------------------------------
(* The client as the receiver: scp_download and download_file_data. *)

NoMoreData == data = << >> /\ (Lost \/ Ended(snd))

\* One turn of the loop: a message is taken for one record, whatever it holds.
\* A header that is cut, or has something behind it, is malformed or gives a file
\* the wrong name.  Contents in the place of a record may read as an `E' or as a
\* warning.
DownloadRecord ==
  /\ ~upload /\ rcv = "record"
  /\ \E k \in 1 .. Len(data) :
       LET h == data[1]
           cut == h.kind \in {"C", "D"} /\ k # 2
           path == Append(at, IF cut THEN "cut" ELSE h.name)
       IN /\ data' = SubSeq(data, k + 1, Len(data))
          /\ odd' = IF cut /\ k = 1 THEN odd \cup {"split"} ELSE odd
          /\ warned' = (warned \/ h.kind = "1")
          /\ \/ /\ h.kind = "C" /\ Answer("0")
                /\ rcv' = (IF h.n > 0 THEN "data" ELSE "trailer")
                /\ remaining' = h.n /\ target' = path
                /\ dest' = (path :> << >>) @@ dest /\ UNCHANGED at
             \/ /\ h.kind = "D" /\ Answer("0")
                /\ at' = path /\ dest' = (path :> <<Status("D")>>) @@ dest
                /\ UNCHANGED <<rcv, target, remaining>>
             \/ /\ h.kind \in {"E", "byte"} /\ Answer("0")
                /\ at' = (IF at # << >> THEN Front(at) ELSE at)
                /\ UNCHANGED <<rcv, target, remaining, dest>>
             \/ h.kind \in {"1", "byte"} /\ Answer("0") /\ UNCHANGED rcvVars
             \/ /\ h.kind \notin {"E", "1"} /\ rcv' = "failed"
                /\ UNCHANGED <<at, target, remaining, dest, replies>>
  /\ UNCHANGED <<cmdVars, sndVars>>

\* The end of the channel ends the download, in good order or not; the last
\* eof() fails only if the whole session is gone.
DownloadEnd ==
  /\ ~upload /\ rcv = "record" /\ NoMoreData
  /\ rcv' = "done" \/ (Lost /\ rcv' = "failed")
  /\ UNCHANGED <<cmdVars, sndVars, at, target, remaining, dest, data, replies, warned, odd>>

\* Mutant of DownloadData: the whole message is written to the file.
DownloadDataWhole ==
  /\ ~upload /\ rcv = "data"
  /\ \/ \E k \in 1 .. Len(data) :
          LET take == IF k < remaining THEN k ELSE remaining
          IN /\ data' = SubSeq(data, k + 1, Len(data))
             /\ dest' = [dest EXCEPT ![target] = @ \o SubSeq(data, 1, k)]
             /\ remaining' = remaining - take
             /\ \/ remaining' > 0 /\ UNCHANGED <<rcv, replies>>
                \/ remaining' = 0 /\ take = k /\ rcv' = "trailer" /\ UNCHANGED replies
                \/ take < k /\ rcv' = "record" /\ Answer("0")
     \/ /\ data # << >> \/ NoMoreData
        /\ rcv' = "failed" /\ UNCHANGED <<data, dest, remaining, replies>>
  /\ UNCHANGED <<cmdVars, sndVars, at, target, warned, odd>>

\* A message of contents.  What follows the contents in it stands for the
\* status, and buf.clear() drops it; else the next message is the status.
DownloadData ==
  /\ ~upload /\ rcv = "data"
  /\ \/ \E k \in 1 .. Len(data) :
          LET take == IF k < remaining THEN k ELSE remaining
          IN /\ data' = SubSeq(data, k + 1, Len(data))
             /\ dest' = [dest EXCEPT ![target] = @ \o SubSeq(data, 1, take)]
             /\ remaining' = remaining - take
             /\ \/ remaining' > 0 /\ UNCHANGED <<rcv, replies>>
                \/ remaining' = 0 /\ take = k /\ rcv' = "trailer" /\ UNCHANGED replies
                \/ take < k /\ rcv' = "record" /\ Answer("0")
     \/ /\ data # << >> \/ NoMoreData
        /\ rcv' = "failed" /\ UNCHANGED <<data, dest, remaining, replies>>
  /\ UNCHANGED <<cmdVars, sndVars, at, target, warned, odd>>

\* The status is not looked at, and may be missing.
DownloadStatus ==
  /\ ~upload /\ rcv = "trailer"
  /\ \/ \E k \in 1 .. Len(data) : data' = SubSeq(data, k + 1, Len(data))
     \/ NoMoreData /\ UNCHANGED data
  /\ rcv' = "record" /\ Answer("0")
  /\ UNCHANGED <<cmdVars, sndVars, at, target, remaining, dest, warned, odd>>

-----------------------------------------------------------------------------

Returned == Ended(IF upload THEN snd ELSE rcv)

Sender ==
  /\ ~Returned
  /\ SendRoot \/ SendNext \/ SendFile \/ RecvResponse \/ RemoteReply
Receiver ==
  /\ ~Returned
  /\ \/ RemoteRecord \/ RemoteFile \/ RemoteMessage
     \/ DownloadRecord \/ DownloadEnd \/ DownloadData \/ DownloadStatus

Next == Connect \/ Lose \/ Sender \/ Receiver

-----------------------------------------------------------------------------
(***************************************************************************)
(* Properties                                                              *)
(***************************************************************************)

\* Every variable keeps its type.
TypeOK ==
  /\ upload \in BOOLEAN /\ recursive \in BOOLEAN /\ root \in Files \cup Dirs
  /\ snd \in Awaiting \cup {"connect", "root", "next", "read", "done", "failed"}
  /\ rcv \in {"connect", "record", "data", "message", "trailer", "done", "failed"}
  /\ remaining \in Nat /\ replies \in Seq({"0", "1", "2", "text"})
  /\ warned \in BOOLEAN
  /\ odd \subseteq {"lost", "changed", "error status", "split", "refused", "not run"}

\* What was made is the copy of `root' and of all that is under it: each path
\* leads down from the root, each file is whole, each directory complete.
Whole ==
  /\ <<root>> \in DOMAIN dest
  /\ \A path \in DOMAIN dest :
       /\ \/ path = <<root>>
          \/ /\ Front(path) \in DOMAIN dest
             /\ Last(path) \in Entries[Last(Front(path))]
       /\ \/ /\ Last(path) \in Files
             /\ dest[path] = Bytes(Last(path), Size[Last(path)])
          \/ /\ Last(path) \in Dirs
             /\ dest[path] = <<Status("D")>>
             /\ \A x \in Entries[Last(path)] : Append(path, x) \in DOMAIN dest

\* A client that succeeds and has printed no warning has copied everything:
\* each file whole and in its directory, and nothing else.  In an upload a
\* file is whole that has as many bytes as when its header was written.  In a
\* download three accidents go unnoticed and can break this: a header that
\* comes in two messages, a status that reports a read error, and a remote
\* scp that ends between two records.
SilentSuccessIsWhole ==
  /\ TypeOK
  /\ upload /\ snd = "done" /\ ~warned => Whole
  /\ ~upload /\ rcv = "done" /\ ~warned /\ odd = {} => Whole

\* No wait of the client has a time limit: nothing it could act on has arrived,
\* and the remote side is there.  It may be so for ever: with a remote sshd that
\* does not answer, or a command it has not run; and when the two sides are out
\* of step, after a file that has become smaller or larger than its header says,
\* a record that was refused and whose file is sent all the same, or a warning of
\* the remote sender, which the client acknowledges though nobody asked.
HeldUp ==
  /\ ~Lost /\ ~Ended(snd) /\ ~Ended(rcv)
  /\ IF upload THEN replies = << >> ELSE data = << >>
  /\ \/ snd = "connect"
     \/ odd \cap {"not run", "changed", "refused"} # {}
     \/ ~upload /\ warned
=============================================================================
