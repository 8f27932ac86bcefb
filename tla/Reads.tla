-------------------------------- MODULE Reads --------------------------------
(***************************************************************************)
(* Reading a closed file: get-path names a copy of it, and everything else *)
(* is done with that path, by Client.Read, and by "efes mount", where a    *)
(* Lookup caches the path and the size and a FileHandle turns the reads of *)
(* the kernel into one long response body.  The read server is             *)
(* http.FileServer on the data directory (external): it answers a GET with *)
(* what the path holds at that moment, from its first byte on unless the   *)
(* request has a Range header, which none of these has.                    *)
(*                                                                         *)
(* The file is a row of Size units, and the unit at an index is the same   *)
(* whenever it is written.  The copy can be unlinked at any time, because  *)
(* the file was moved or deleted, and a drain that brings the file back    *)
(* writes it again from its first unit on.  A response body can break off  *)
(* at any point.  The kernel has one read request at a time on a handle    *)
(* (mount does not ask for fuse.AsyncRead).                                *)
(***************************************************************************)
EXTENDS Naturals

CONSTANTS
    Size,           \* length of the file
    MaxRead,        \* bound: units that one read request of the kernel asks for
    MaxRewrites     \* bound: drains that bring the file back to the path

ASSUME ReadsAssumption ==
    /\ Size \in Nat \ {0} /\ MaxRead \in Nat \ {0} /\ MaxRewrites \in Nat

VARIABLES
    have,       \* units of the file under the path, or Gone
    rewrites,   \* counts what MaxRewrites bounds
    client,     \* Client.Read: where it is, what it has written to its file
    node,       \* size in the File of the mount, or Gone before the Lookup
    handle,     \* the FileHandle: its body and its offset
    reply       \* history: the last answer to a read request, and what for

vars == <<have, rewrites, client, node, handle, reply>>

Gone == Size + 1

\* A body that is being read: the next unit, and the length in its header.
Body == [next : 0..Size, end : 0..Size]
NoBody == [next |-> 0, end |-> Gone]

NoReply == [ok |-> FALSE, offset |-> 0, first |-> 0, n |-> 0]

ReadsTypeOK ==
    /\ have \in 0..Gone /\ rewrites \in 0..MaxRewrites
    /\ client \in [at : {"begin", "path", "copying", "ok", "error"},
                   body : Body \cup {NoBody}]
    /\ node \in 0..Gone
    /\ handle \in [body : Body \cup {NoBody}, offset : 0..(2 * Size),
                   base : 0..Size]
    /\ reply \in [ok : BOOLEAN, offset : 0..(2 * Size), first : 0..Size,
                  n : 0..Size]

Init ==
    /\ have = Size /\ rewrites = 0
    /\ client = [at |-> "begin", body |-> NoBody]
    /\ node = Gone
    /\ handle = [body |-> NoBody, offset |-> 0, base |-> 0]
    /\ reply = NoReply

-----------------------------------------------------------------------------
(* The path: a drain or a delete unlinks it; a drain that comes back       *)
(* creates it, truncated, and appends to it.                               *)

Unlink ==
    /\ have # Gone
    /\ have' = Gone
    /\ UNCHANGED <<rewrites, client, node, handle, reply>>

Rewrite ==
    /\ rewrites < MaxRewrites
    /\ rewrites' = rewrites + 1 /\ have' = 0
    /\ UNCHANGED <<client, node, handle, reply>>

Append ==
    /\ have < Size
    /\ have' = have + 1
    /\ UNCHANGED <<rewrites, client, node, handle, reply>>

\* The response to a GET without a Range header.
Response == [next |-> 0, end |-> have]

-----------------------------------------------------------------------------
(* Client.Read. *)

ClientGetPath ==
    /\ client.at \in {"begin", "ok", "error"}
    /\ client' = [at |-> "path", body |-> NoBody]
    /\ UNCHANGED <<have, rewrites, node, handle, reply>>

ClientGet ==
    /\ client.at = "path"
    /\ client' = IF have = Gone THEN [client EXCEPT !.at = "error"]
                                ELSE [at |-> "copying", body |-> Response]
    /\ UNCHANGED <<have, rewrites, node, handle, reply>>

\* Variant: the error of io.Copy is ignored.
ClientCopyAnyway ==
    /\ client.at = "copying"
    /\ \E n \in client.body.next..client.body.end :
         client' = [at |-> "ok", body |-> [client.body EXCEPT !.next = n]]
    /\ UNCHANGED <<have, rewrites, node, handle, reply>>

\* io.Copy: to the end of the body, or to where it breaks.
ClientCopy ==
    /\ client.at = "copying"
    /\ \E n \in client.body.next..client.body.end :
         client' = [at |-> IF n = client.body.end THEN "ok" ELSE "error",
                    body |-> [client.body EXCEPT !.next = n]]
    /\ UNCHANGED <<have, rewrites, node, handle, reply>>

-----------------------------------------------------------------------------
(* The mount. *)

\* Root.Lookup: get-path and a HEAD, whose answer has the length.
Lookup ==
    /\ have # Gone
    /\ node' = have
    /\ UNCHANGED <<have, rewrites, client, handle, reply>>

\* File.Open, and Release of the handle before.
Open ==
    /\ node # Gone
    /\ handle' = [body |-> NoBody, offset |-> 0, base |-> 0]
    /\ reply' = NoReply
    /\ UNCHANGED <<have, rewrites, client, node>>

GoesOn(offset) == offset = handle.offset /\ handle.body # NoBody

\* Variant: open leaves the offset of the handle alone.
PositionedKeepsOffset(offset) ==
    IF GoesOn(offset)
      THEN handle
      ELSE [body |-> Response, offset |-> handle.offset, base |-> offset]

\* FileHandle.Read up to io.ReadFull: the body is closed when the request is
\* for another offset, and opened when there is none.  The header that open
\* sets is "bytes", with the offset the handle had: the server ignores it.
Positioned(offset) ==
    IF GoesOn(offset)
      THEN handle
      ELSE [body |-> Response, offset |-> offset, base |-> offset]

\* No copy under the path, or no answer: the old body is closed already.
ReadFails(offset) ==
    /\ handle' = [handle EXCEPT !.body =
                    IF offset = handle.offset THEN @ ELSE NoBody]
    /\ reply' = [NoReply EXCEPT !.offset = offset]

\* Variant: a short body fills the buffer all the same (buf for buf[:n]).
ReadBodyPastEnd(offset, want, h) ==
    /\ handle' = [h EXCEPT !.body.next = @ + want, !.offset = @ + want]
    /\ reply' = [ok |-> TRUE, offset |-> offset, first |-> h.body.next,
                 n |-> want]

\* io.ReadFull takes n units.  The end of the body is no error, and nor is a
\* body that is shorter than its header says (io.ErrUnexpectedEOF); any other
\* failure is, and the units before it count.
ReadBody(offset, want, h) ==
    \E n \in 0..want, ok \in BOOLEAN :
      /\ h.body.next + n <= h.body.end
      /\ n = want \/ h.body.next + n = h.body.end => ok
      /\ handle' = [h EXCEPT !.body.next = @ + n, !.offset = @ + n]
      /\ reply' = [ok |-> ok, offset |-> offset, first |-> h.body.next, n |-> n]

Read(offset, want) ==
    /\ node # Gone /\ offset < node
    /\ \/ /\ GoesOn(offset) \/ have # Gone
          /\ ReadBody(offset, want, Positioned(offset))
       \/ ~GoesOn(offset) /\ ReadFails(offset)
    /\ UNCHANGED <<have, rewrites, client, node>>

Next ==
    \/ Unlink \/ Rewrite \/ Append
    \/ ClientGetPath \/ ClientGet \/ ClientCopy
    \/ Lookup \/ Open
    \/ \E offset \in 0..(Size - 1), want \in 1..MaxRead : Read(offset, want)

Spec == Init /\ [][Next]_vars

-----------------------------------------------------------------------------
(* Properties. *)

\* What a read request of the kernel gets begins with the byte it asked for, as
\* long as the body was opened for a request at offset 0, the start of the file
\* or a rewind: after any sequence of reads that came back short, failed in the
\* middle or found the copy gone (mount.go:141-158).  Nothing of the kind holds
\* for a body that was opened further on: see Positioned.
RightBytes ==
    reply.n > 0 /\ handle.base = 0 => reply.first = reply.offset

\* A Client.Read that reports success has written the whole file, wherever the
\* copy it was told of has gone meanwhile and wherever the connection broke,
\* provided that no drain was just bringing the file back (read.go:12-54).
ReadWhole ==
    client.at = "ok" /\ rewrites = 0 => client.body.next = Size
=============================================================================
