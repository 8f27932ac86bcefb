---------------------------- MODULE ReadsProofs ----------------------------
(***************************************************************************)
(* What readers get, for every length of the file and of a read request,   *)
(* and any number of drains that come and go.                              *)
(***************************************************************************)
EXTENDS Reads, TLAPS

-----------------------------------------------------------------------------
(* The inductive invariant. *)

\* The offset of a handle with a body is that of the next unit of the body,
\* moved by the offset that the body was opened for.
HandleInv ==
    handle.body # NoBody => handle.offset = handle.base + handle.body.next

\* As long as no drain has come back to the path, it holds all or nothing, and
\* so does every body that was opened from it.
WholeInv ==
    rewrites = 0 =>
      /\ have \in {Size, Gone}
      /\ client.at = "copying" => client.body.end = Size

\* A body is there while it is copied.
CopyInv == client.at = "copying" => client.body \in Body

ReadsIInv ==
    ReadsTypeOK /\ HandleInv /\ WholeInv /\ CopyInv /\ RightBytes /\ ReadWhole

-----------------------------------------------------------------------------

LEMMA BodyType ==
  /\ NoBody \notin Body /\ Gone \in 0..Gone /\ 0 \in 0..Size /\ Size \in 0..Size
  /\ \A b \in Body : /\ b # NoBody /\ b.next \in 0..Size /\ b.end \in 0..Size
  /\ \A h \in 0..Gone : h # Gone => [next |-> 0, end |-> h] \in Body
BY ReadsAssumption DEF Body, NoBody, Gone

LEMMA InitInv == Init => ReadsIInv
<1> SUFFICES ASSUME Init PROVE ReadsIInv
  OBVIOUS
<1>1. ReadsTypeOK
  BY BodyType, ReadsAssumption DEF Init, ReadsTypeOK, NoReply, Gone
<1>2. HandleInv /\ WholeInv /\ CopyInv /\ RightBytes /\ ReadWhole
  BY DEF Init, HandleInv, WholeInv, CopyInv, RightBytes, ReadWhole, NoReply
<1> QED
  BY <1>1, <1>2 DEF ReadsIInv

\* The path.
LEMMA PathInv ==
  ASSUME ReadsIInv, Unlink \/ Rewrite \/ Append
  PROVE  ReadsIInv'
<1>1. UNCHANGED <<client, node, handle, reply>>
  BY DEF Unlink, Rewrite, Append
<1>2. have' \in 0..Gone /\ rewrites' \in 0..MaxRewrites
  BY ReadsAssumption DEF Unlink, Rewrite, Append, ReadsIInv, ReadsTypeOK, Gone
<1>3. WholeInv' /\ (rewrites' = 0 => rewrites = 0)
  BY <1>1, <1>2, ReadsAssumption
     DEF Unlink, Rewrite, Append, ReadsIInv, ReadsTypeOK, WholeInv, Gone
<1>4. ReadsTypeOK'
  BY <1>1, <1>2 DEF ReadsIInv, ReadsTypeOK
<1> QED
  BY <1>1, <1>3, <1>4
     DEF ReadsIInv, HandleInv, CopyInv, RightBytes, ReadWhole

\* Client.Read.
LEMMA ClientInv ==
  ASSUME ReadsIInv, ClientGetPath \/ ClientGet \/ ClientCopy
  PROVE  ReadsIInv'
<1>1. UNCHANGED <<have, rewrites, node, handle, reply>>
  BY DEF ClientGetPath, ClientGet, ClientCopy
<1> DEFINE Client == [at : {"begin", "path", "copying", "ok", "error"},
                      body : Body \cup {NoBody}]
<1>2. /\ client' \in Client
      /\ client'.at = "copying" => client'.body \in Body
      /\ rewrites = 0 /\ client'.at = "copying" => client'.body.end = Size
      /\ rewrites = 0 /\ client'.at = "ok" => client'.body.next = Size
  <2>1. CASE ClientGetPath
    BY <2>1 DEF ClientGetPath
  <2>2. CASE ClientGet
    <3>1. client \in Client /\ have \in 0..Gone
      BY DEF ReadsIInv, ReadsTypeOK
    <3>2. CASE have = Gone
      <4>1. client' \in Client /\ client'.at = "error"
        BY <2>2, <3>1, <3>2 DEF ClientGet
      <4> QED
        BY <4>1
    <3>3. CASE have # Gone
      <4>1. client' = [at |-> "copying", body |-> [next |-> 0, end |-> have]]
        BY <2>2, <3>3 DEF ClientGet, Response
      <4>2. [next |-> 0, end |-> have] \in Body
        BY <3>1, <3>3, BodyType
      <4>3. rewrites = 0 => have = Size
        BY <3>3 DEF ReadsIInv, WholeInv
      <4> QED
        BY <4>1, <4>2, <4>3
    <3> QED
      BY <3>2, <3>3
  <2>3. CASE ClientCopy
    <3>1. PICK n \in client.body.next..client.body.end :
            client' = [at |-> IF n = client.body.end THEN "ok" ELSE "error",
                       body |-> [client.body EXCEPT !.next = n]]
      BY <2>3 DEF ClientCopy
    <3>2. client.at = "copying" /\ client.body \in Body
      BY <2>3 DEF ClientCopy, ReadsIInv, CopyInv
    <3>3. n \in 0..Size
      BY <3>2, BodyType, ReadsAssumption
    <3>4. [client.body EXCEPT !.next = n] \in Body
      BY <3>2, <3>3 DEF Body
    <3>5. client'.body.next = n
      BY <3>1, <3>2 DEF Body
    <3>6. client' \in Client /\ client'.at \in {"ok", "error"}
          /\ (client'.at = "ok" => n = client.body.end)
      BY <3>1, <3>4
    <3>7. rewrites = 0 => client.body.end = Size
      BY <3>2 DEF ReadsIInv, WholeInv
    <3> QED
      BY <3>5, <3>6, <3>7
  <2> QED
    BY <2>1, <2>2, <2>3
<1>3. ReadsTypeOK'
  BY <1>1, <1>2 DEF ReadsIInv, ReadsTypeOK
<1> QED
  BY <1>1, <1>2, <1>3
     DEF ReadsIInv, HandleInv, WholeInv, CopyInv, RightBytes, ReadWhole

\* The node and its handle.
LEMMA OpenInv ==
  ASSUME ReadsIInv, Lookup \/ Open
  PROVE  ReadsIInv'
<1>1. UNCHANGED <<have, rewrites, client>> /\ node' \in 0..Gone
  BY DEF Lookup, Open, ReadsIInv, ReadsTypeOK
<1>2. CASE Lookup
  BY <1>1, <1>2 DEF Lookup, ReadsIInv, ReadsTypeOK, HandleInv, WholeInv, CopyInv,
                    RightBytes, ReadWhole
<1>3. CASE Open
  <2>1. /\ handle' = [body |-> NoBody, offset |-> 0, base |-> 0]
        /\ reply' = NoReply
    BY <1>3 DEF Open
  <2>2. ReadsTypeOK'
    BY <1>1, <2>1, BodyType, ReadsAssumption DEF ReadsIInv, ReadsTypeOK, NoReply
  <2> QED
    BY <1>1, <2>1, <2>2 DEF ReadsIInv, HandleInv, WholeInv, CopyInv, RightBytes,
                            ReadWhole, NoReply
<1> QED
  BY <1>2, <1>3

\* A request is answered from a body, with or without an error.
LEMMA BodyInv ==
  ASSUME ReadsIInv, UNCHANGED <<have, rewrites, client, node>>,
         NEW offset \in 0..(Size - 1), NEW want \in 1..MaxRead,
         offset < node, GoesOn(offset) \/ have # Gone,
         ReadBody(offset, want, Positioned(offset))
  PROVE  ReadsIInv'
<1> DEFINE h == Positioned(offset)
<1>1. /\ h.body \in Body /\ h.base \in 0..Size /\ h.offset = offset
      /\ h.offset = h.base + h.body.next
      /\ h \in [body : Body \cup {NoBody}, offset : 0..(2 * Size), base : 0..Size]
  <2>1. CASE GoesOn(offset)
    BY <2>1, ReadsAssumption
       DEF GoesOn, Positioned, ReadsIInv, ReadsTypeOK, HandleInv
  <2>2. CASE ~GoesOn(offset)
    <3>1. h = [body |-> Response, offset |-> offset, base |-> offset]
      BY <2>2 DEF Positioned
    <3>2. Response \in Body /\ Response.next = 0
      BY <2>2, BodyType DEF Response, ReadsIInv, ReadsTypeOK
    <3>3. offset \in 0..(2 * Size) /\ offset \in 0..Size /\ offset = offset + 0
      BY ReadsAssumption
    <3> QED
      BY <3>1, <3>2, <3>3
  <2> QED
    BY <2>1, <2>2
<1> HIDE DEF h
<1>2. PICK n \in 0..want, ok \in BOOLEAN :
        /\ h.body.next + n <= h.body.end
        /\ handle' = [h EXCEPT !.body.next = @ + n, !.offset = @ + n]
        /\ reply' = [ok |-> ok, offset |-> offset, first |-> h.body.next, n |-> n]
  BY DEF ReadBody, h
<1>3. /\ n \in Nat /\ h.body.next \in 0..Size /\ h.body.next + n \in 0..Size
      /\ n \in 0..Size /\ h.offset + n \in 0..(2 * Size)
  BY <1>1, <1>2, BodyType, ReadsAssumption
<1>4. /\ handle'.body = [h.body EXCEPT !.next = @ + n]
      /\ handle'.offset = h.offset + n /\ handle'.base = h.base
      /\ handle' \in [body : Body \cup {NoBody}, offset : 0..(2 * Size),
                      base : 0..Size]
  BY <1>1, <1>2, <1>3 DEF Body
<1>5. handle'.body.next = h.body.next + n
  BY <1>1, <1>4 DEF Body
<1>6. ReadsTypeOK'
  BY <1>2, <1>3, <1>4, ReadsAssumption DEF ReadsIInv, ReadsTypeOK
<1>7. HandleInv'
  BY <1>1, <1>3, <1>4, <1>5 DEF HandleInv
<1>8. RightBytes'
  <2>1. h.base = 0 => h.body.next = offset
    BY <1>1, BodyType
  <2> QED
    BY <1>2, <1>4, <2>1 DEF RightBytes
<1> QED
  BY <1>6, <1>7, <1>8 DEF ReadsIInv, WholeInv, CopyInv, ReadWhole

LEMMA ReadInv ==
  ASSUME ReadsIInv, NEW offset \in 0..(Size - 1), NEW want \in 1..MaxRead,
         Read(offset, want)
  PROVE  ReadsIInv'
<1>1. UNCHANGED <<have, rewrites, client, node>> /\ offset < node
  BY DEF Read
<1>2. CASE /\ GoesOn(offset) \/ have # Gone
           /\ ReadBody(offset, want, Positioned(offset))
  BY <1>1, <1>2, BodyInv
<1>3. CASE ~GoesOn(offset) /\ ReadFails(offset)
  <2>1. /\ handle' = [handle EXCEPT !.body =
                        IF offset = handle.offset THEN @ ELSE NoBody]
        /\ reply' = [NoReply EXCEPT !.offset = offset]
    BY <1>3 DEF ReadFails
  <2>2. /\ handle'.body = NoBody
        /\ handle' \in [body : Body \cup {NoBody}, offset : 0..(2 * Size),
                        base : 0..Size]
    <3>1. handle \in [body : Body \cup {NoBody}, offset : 0..(2 * Size),
                      base : 0..Size]
      BY DEF ReadsIInv, ReadsTypeOK
    <3>2. handle' = [handle EXCEPT !.body = NoBody]
      BY <1>3, <2>1, <3>1 DEF GoesOn
    <3>3. NoBody \in Body \cup {NoBody}
      OBVIOUS
    <3> QED
      BY <3>1, <3>2, <3>3
  <2>3. /\ reply'.n = 0
        /\ reply' \in [ok : BOOLEAN, offset : 0..(2 * Size), first : 0..Size,
                       n : 0..Size]
    <3>1. reply' = [ok |-> FALSE, offset |-> offset, first |-> 0, n |-> 0]
      BY <2>1 DEF NoReply
    <3>2. offset \in 0..(2 * Size) /\ 0 \in 0..Size
      BY ReadsAssumption
    <3> QED
      BY <3>1, <3>2
  <2>4. ReadsTypeOK'
    BY <1>1, <2>2, <2>3 DEF ReadsIInv, ReadsTypeOK
  <2> QED
    BY <1>1, <2>2, <2>3, <2>4
       DEF ReadsIInv, HandleInv, WholeInv, CopyInv, RightBytes, ReadWhole
<1> QED
  BY <1>2, <1>3 DEF Read

LEMMA NextInv == ReadsIInv /\ [Next]_vars => ReadsIInv'
<1> SUFFICES ASSUME ReadsIInv, [Next]_vars PROVE ReadsIInv'
  OBVIOUS
<1>1. CASE UNCHANGED vars
  BY <1>1 DEF vars, ReadsIInv, ReadsTypeOK, HandleInv, WholeInv, CopyInv,
              RightBytes, ReadWhole
<1> QED
  BY <1>1, PathInv, ClientInv, OpenInv, ReadInv DEF Next

\* The path, Client.Read and the handle of the mount keep their types; the
\* offset of a handle never passes twice the length of the file.
THEOREM ReadsTypeCorrect == Spec => []ReadsTypeOK
<1>1. ReadsIInv => ReadsTypeOK
  BY DEF ReadsIInv
<1> QED
  BY <1>1, InitInv, NextInv, PTL DEF Spec

\* Whatever sequence of reads, failures and unlinked copies a handle has seen, a
\* body that was opened at the start of the file is read at the right place.
THEOREM HandleReadsRightBytes == Spec => []RightBytes
<1>1. ReadsIInv => RightBytes
  BY DEF ReadsIInv
<1> QED
  BY <1>1, InitInv, NextInv, PTL DEF Spec

\* A read that succeeds is whole, unless a drain was bringing the file back.
THEOREM ReadIsWhole == Spec => []ReadWhole
<1>1. ReadsIInv => ReadWhole
  BY DEF ReadsIInv
<1> QED
  BY <1>1, InitInv, NextInv, PTL DEF Spec
=============================================================================
