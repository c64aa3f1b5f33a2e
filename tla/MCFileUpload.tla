---------------------------- MODULE MCFileUpload ----------------------------
(* Small instances of FileUpload. *)
EXTENDS FileUpload, TLC

CONSTANTS s1, s2, video, page

File(n, size) == [name |-> n, size |-> size, at |-> 0, looks |-> "plain"]

\* A file whose byte at makes a read that begins with it look like something else.
OddFile(n, size, at, looks) == [name |-> n, size |-> size, at |-> at, looks |-> looks]

\* Two clients that write the same video; one of them uploads a page first and
\* sends a head without a size last, the other ends with an empty page.
OrderlyScript ==
  s1 :> <<File(page, 2), File(video, 3), File(page, -1)>> @@ s2 :> <<File(video, 2), File(page, 0)>>

\* Two clients that wait, and files that look like something else: one begins like
\* a number, the other may be cut where it looks like an HTTP request.
OddScript ==
  s1 :> <<OddFile(page, 2, 1, "json"), OddFile(video, 2, 2, "http")>> @@ s2 :> <<File(page, 1)>>

\* One client that does not wait; its first file is empty, its second starts
\* like an HTTP request.
RoughScript ==
  s1 :> <<File(page, 0), OddFile(video, 2, 1, "http"), File(page, -1)>> @@ s2 :> << >>

\* The same with a file that goes on like a number.
RoughJson ==
  s1 :> <<File(page, 1), OddFile(video, 2, 2, "json")>> @@ s2 :> << >>

KindsOfClients ==
  {[orderly |-> TRUE, script |-> OrderlyScript], [orderly |-> TRUE, script |-> OddScript],
   [orderly |-> FALSE, script |-> RoughScript], [orderly |-> FALSE, script |-> RoughJson]}
=============================================================================
