------------------------------- MODULE Inflate ------------------------------
(***************************************************************************)
(* zlib/src/inflate.c and inffast.c: inflate is called with what there is  *)
(* of input and room, stops in the middle of anything, and keeps the last  *)
(* bytes it put out in a circular window, as the application's buffer is   *)
(* gone in the next call.  The bits of a code, a header or a check value   *)
(* are one unit of input here.                                             *)
(*                                                                         *)
(* Gzip headers, code tables and INFLATE_STRICT are left out, and distances*)
(* beyond the window size, which the header rules out.                     *)
(***************************************************************************)
EXTENDS Integers, Sequences, SequencesExt

CONSTANTS
    Streams,     \* units, dictionary, and whether the check value is right
    WSize,       \* 2^wbits
    MinIn,       \* units that hold every length and distance: 6 bytes
    MaxMatch,    \* bytes a match may have: 258
    MaxIn,       \* bound: avail_in
    MaxRoom,     \* bound: avail_out
    MaxResets    \* bound: inflateReset

VARIABLE z       \* z_stream and inflate_state

\* Units by their kinds, with what is in them: head dictionary?, codes last?, stored last?,
\* size n, byte v, lit v, length n, distance n; wrong is what no header or code looks like.
Unit ==
    ({"head", "codes", "stored", "wrong"} \X BOOLEAN) \union ({"size", "byte", "lit"} \X Nat)
      \union ({"length", "distance"} \X (Nat \ {0})) \union {<<"end">>, <<"check">>}
-----------------------------------------------------------------------------
(* The reference.                                                          *)

\* n bytes, each the one dist before it.
Repeated(t, dist, n) == [j \in 1 .. n |-> t[Len(t) - dist + 1 + ((j - 1) % dist)]]

\* One unit more of s: what is read next, the dictionary in use, the text, a match's
\* length or the bytes that are left of a stored block, and whether the block is the last.
After(r) == IF r.last THEN "check" ELSE "block"
Decode(s, r, u) ==
    CASE r.next = "head" /\ u[1] = "head" ->
           [r EXCEPT !.next = "block", !.dict = IF u[2] THEN s.dict ELSE <<>>]
      [] r.next = "block" /\ u[1] = "stored" -> [r EXCEPT !.next = "size", !.last = u[2]]
      [] r.next = "block" /\ u[1] = "codes" -> [r EXCEPT !.next = "code", !.last = u[2]]
      [] r.next = "size" /\ u[1] = "size" ->
           [r EXCEPT !.next = IF u[2] = 0 THEN After(r) ELSE "byte", !.n = u[2]]
      [] r.next = "byte" ->
           [r EXCEPT !.next = IF r.n = 1 THEN After(r) ELSE "byte", !.n = r.n - 1,
                     !.text = Append(r.text, u[2])]
      [] r.next = "code" /\ u[1] = "lit" -> [r EXCEPT !.text = Append(r.text, u[2])]
      [] r.next = "code" /\ u[1] = "length" -> [r EXCEPT !.next = "distance", !.n = u[2]]
      [] r.next = "code" /\ u[1] = "end" -> [r EXCEPT !.next = After(r)]
      [] r.next = "distance" /\ u[1] = "distance" /\ u[2] <= Len(r.dict \o r.text) ->
           [r EXCEPT !.next = "code", !.text = r.text \o Repeated(r.dict \o r.text, u[2], r.n)]
      [] r.next = "check" /\ s.right -> [r EXCEPT !.next = "done"]
      [] r.next = "done" -> r
      [] OTHER -> [r EXCEPT !.next = "bad"]

\* After so many units.
Decoded(s) ==
    LET after[i \in 0 .. Len(s.units)] ==
          IF i = 0
          THEN [next |-> "head", dict |-> <<>>, text |-> <<>>, n |-> 0, last |-> FALSE]
          ELSE LET r == after[i - 1] IN Decode(s, r, s.units[i])
    IN  after

WholeText(s) == Decoded(s)[Len(s.units)].text

Good(s) == Decoded(s)[Len(s.units)].next = "done"
-----------------------------------------------------------------------------
Reset(s) ==
    [stream |-> s, at |-> 1, mode |-> "HEAD", last |-> FALSE, havedict |-> FALSE,
     length |-> 0, offset |-> 0, window |-> [i \in 0 .. WSize - 1 |-> 0], allocated |-> FALSE,
     wsize |-> 0, whave |-> 0, wnext |-> 0, check |-> <<>>, past |-> <<>>, buf |-> <<>>,
     inside |-> FALSE, have |-> 0, in |-> 0, left |-> 0, out |-> 0, flush |-> "no",
     ret |-> "ok", stuck |-> FALSE, resets |-> 0]

Init == \E s \in Streams : z = Reset(s)

\* inflateReset keeps the memory of the window, and what is in it.
InflateReset ==
    /\ ~z.inside /\ z.resets < MaxResets
    /\ z' = [Reset(z.stream) EXCEPT !.window = z.window, !.allocated = z.allocated,
                                    !.resets = z.resets + 1]

\* updatewindow: the last of bytes go into the window.
UpdateWindow(e, bytes) ==
    LET n == Len(bytes)
        dist == Min({WSize - e.wnext, n})
        rest == n - dist
        f == [e EXCEPT !.wsize = WSize, !.allocated = TRUE]
    IN  IF n >= WSize
        THEN [f EXCEPT !.window = [i \in DOMAIN @ |-> bytes[n - WSize + i + 1]],
                       !.wnext = 0, !.whave = WSize]
        ELSE [f EXCEPT !.window = [i \in DOMAIN @ |->
                          IF i < rest THEN bytes[dist + i + 1]
                          ELSE IF i \in e.wnext .. e.wnext + dist - 1 THEN bytes[i - e.wnext + 1]
                          ELSE @[i]],
                       !.wnext = IF rest > 0 THEN rest ELSE IF @ + dist = WSize THEN 0 ELSE @ + dist,
                       !.whave = IF rest > 0 \/ @ = WSize THEN WSize ELSE @ + dist]

\* There may be no memory for the window.
Updates(e, bytes, none) == {UpdateWindow(e, bytes)} \union IF e.allocated THEN {} ELSE {none}

\* After Z_NEED_DICT, once.
SetDictionary ==
    /\ ~z.inside /\ z.mode = "DICT" /\ z.ret = "dict" /\ ~z.havedict
    /\ z' \in Updates([z EXCEPT !.havedict = TRUE], z.stream.dict, [z EXCEPT !.mode = "MEM"])

\* The end of buf, put out since out was set.
Wrote(e) == e.out - e.left
Written(e) == SubSeq(e.buf, Len(e.buf) - Wrote(e) + 1, Len(e.buf))

\* inf_leave: the window is kept unless the stream is at its end or wrong.  What was
\* local to the call is forgotten.
Leave(e) ==
    LET kept == e.wsize > 0 \/ (Wrote(e) > 0 /\ e.mode # "BAD"
                                /\ (e.mode \notin {"CHECK", "DONE"} \/ e.flush # "finish"))
        still == e.have = e.in /\ e.left = e.out
        gone == [e EXCEPT !.inside = FALSE, !.have = 0, !.in = 0, !.left = 0, !.out = 0,
                          !.flush = "no"]
        back == [gone EXCEPT !.check = @ \o Written(e),
                             !.ret = CASE e.mode = "DONE" -> "end"
                                       [] e.mode = "BAD" -> "data"
                                       [] still \/ e.flush = "finish" -> "buf"
                                       [] OTHER -> "ok",
                             !.stuck = still /\ e.in > 0 /\ e.out > 0
                                         /\ e.mode \notin {"DONE", "BAD", "TYPE"}]
    IN  IF kept THEN Updates(back, Written(e), [gone EXCEPT !.mode = "MEM"]) ELSE {back}
-----------------------------------------------------------------------------
\* A call: some of the rest of the stream, an empty buffer.
Inflate(have, left, flush) ==
    /\ ~z.inside /\ z.mode # "MEM"
    /\ have <= Len(z.stream.units) - z.at + 1
    /\ z' = [z EXCEPT !.inside = TRUE, !.past = @ \o z.buf, !.buf = <<>>, !.ret = "ok",
                      !.have = have, !.in = have, !.left = left, !.out = left,
                      !.flush = flush, !.mode = IF @ = "TYPE" THEN "TYPEDO" ELSE @]

Kind(e) == e.stream.units[e.at][1]
Value(e) == e.stream.units[e.at][2]
Took(e, n) == [e EXCEPT !.at = @ + n, !.have = @ - n]
Put(e, bytes) == [e EXCEPT !.buf = @ \o bytes, !.left = @ - Len(bytes)]

\* NEEDBITS, no room, a block's end with Z_BLOCK, the end or an error.
Stops(e) ==
    \/ e.mode \in {"HEAD", "STORED", "LEN", "DIST", "CHECK"} /\ e.have = 0
    \/ e.mode = "TYPEDO" /\ ~e.last /\ e.have = 0
    \/ e.mode = "COPY" /\ e.length > 0 /\ (e.have = 0 \/ e.left = 0)
    \/ e.mode \in {"LIT", "MATCH"} /\ e.left = 0
    \/ e.mode = "TYPE" /\ e.flush = "block"
    \/ e.mode \in {"DONE", "BAD"}

Return == z.inside /\ Stops(z) /\ z' \in Leave(z)

NeedDict ==
    /\ z.inside /\ z.mode = "DICT" /\ ~z.havedict
    /\ z' = [z EXCEPT !.inside = FALSE, !.have = 0, !.in = 0, !.left = 0, !.out = 0,
                      !.flush = "no", !.ret = "dict"]

\* A case of the switch that does not leave.
Case(mode) == z.inside /\ z.mode = mode /\ ~Stops(z)

Header ==
    /\ Case("HEAD")
    /\ z' = [Took(z, 1) EXCEPT !.mode = IF Kind(z) # "head" THEN "BAD"
                                        ELSE IF Value(z) THEN "DICT" ELSE "TYPE"]

Dict == Case("DICT") /\ z.havedict /\ z' = [z EXCEPT !.mode = "TYPE"]

Type == Case("TYPE") /\ z' = [z EXCEPT !.mode = "TYPEDO"]

\* The header of a block.
TypeDo ==
    /\ Case("TYPEDO")
    /\ z' = IF z.last THEN [z EXCEPT !.mode = "CHECK"]
            ELSE [Took(z, 1) EXCEPT !.last = Value(z),
                                    !.mode = CASE Kind(z) = "stored" -> "STORED"
                                               [] Kind(z) = "codes" -> "LEN"
                                               [] OTHER -> "BAD"]

Stored ==
    /\ Case("STORED")
    /\ z' = IF Kind(z) = "size" THEN [Took(z, 1) EXCEPT !.length = Value(z), !.mode = "COPY"]
            ELSE [Took(z, 1) EXCEPT !.mode = "BAD"]

Copy ==
    /\ Case("COPY")
    /\ LET n == Min({z.length, z.have, z.left})
           bytes == [j \in 1 .. n |-> z.stream.units[z.at + j - 1][2]]
       IN  z' = IF n = 0 THEN [z EXCEPT !.mode = "TYPE"]
                ELSE [Put(Took(z, n), bytes) EXCEPT !.length = @ - n]

\* The part of the window a distance reaches back to, beyond what this call has put
\* out, and whether it is filled.
Beyond(e, dist) == dist - Wrote(e)
Invalid(e, dist) == Beyond(e, dist) > e.whave

\* Faulty variant: the end of the window is taken for its oldest byte's place.
FromEnd(e, n) == IF n > e.wnext THEN e.wsize - n ELSE e.wnext - n

From(e, n) == IF n > e.wnext THEN e.wsize + e.wnext - n ELSE e.wnext - n

\* inflate_fast, for one symbol: all of a match at once, from the window, from its start
\* and from the output, whose end it may be itself.
FastMatch(e, dist, n) ==
    LET op == Beyond(e, dist)
        from == From(e, op)
        B[j \in 0 .. n - 1] ==
          IF j < op THEN e.window[IF from + j < e.wsize THEN from + j ELSE from + j - e.wsize]
          ELSE IF j < dist THEN e.buf[Len(e.buf) - dist + j + 1]
          ELSE B[j - dist]
    IN  [j \in 1 .. n |-> B[j - 1]]

Quick(e) == e.have >= MinIn /\ e.left >= MaxMatch
FastLength ==
    LET dist == Value(Took(z, 1))
    IN  z' = IF Kind(Took(z, 1)) # "distance" \/ Invalid(z, dist)
             THEN [Took(z, 2) EXCEPT !.mode = "BAD"]
             ELSE Put(Took(z, 2), FastMatch(z, dist, Value(z)))

Fast ==
    /\ Case("LEN") /\ Quick(z)
    /\ CASE Kind(z) = "lit" -> z' = Put(Took(z, 1), <<Value(z)>>)
         [] Kind(z) = "end" -> z' = [Took(z, 1) EXCEPT !.mode = "TYPE"]
         [] Kind(z) = "length" -> FastLength
         [] OTHER -> z' = [Took(z, 1) EXCEPT !.mode = "BAD"]

\* One code, a literal's value is its length.
Len_ ==
    /\ Case("LEN") /\ ~Quick(z)
    /\ z' = CASE Kind(z) = "lit" -> [Took(z, 1) EXCEPT !.length = Value(z), !.mode = "LIT"]
              [] Kind(z) = "end" -> [Took(z, 1) EXCEPT !.mode = "TYPE"]
              [] Kind(z) = "length" -> [Took(z, 1) EXCEPT !.length = Value(z), !.mode = "DIST"]
              [] OTHER -> [Took(z, 1) EXCEPT !.mode = "BAD"]

Dist ==
    /\ Case("DIST")
    /\ z' = IF Kind(z) = "distance" THEN [Took(z, 1) EXCEPT !.offset = Value(z), !.mode = "MATCH"]
            ELSE [Took(z, 1) EXCEPT !.mode = "BAD"]

Lit == Case("LIT") /\ z' = [Put(z, <<z.length>>) EXCEPT !.mode = "LEN"]

\* A match, as much of it as lies in one piece and has room.
Match ==
    /\ Case("MATCH")
    /\ LET op == Beyond(z, z.offset)
           piece == IF op > z.wnext THEN op - z.wnext ELSE op
           n == Min({z.length, z.left} \union IF op > 0 THEN {piece} ELSE {})
           bytes == IF op > 0 THEN [j \in 1 .. n |-> z.window[From(z, op) + j - 1]]
                    ELSE Repeated(z.buf, z.offset, n)
       IN  z' = IF Invalid(z, z.offset) THEN [z EXCEPT !.mode = "BAD"]
                ELSE [Put(z, bytes) EXCEPT !.length = @ - n,
                                           !.mode = IF z.length = n THEN "LEN" ELSE @]

\* The check value is of all that was put out; what this call put out is counted here.
Check ==
    /\ Case("CHECK")
    /\ LET sum == z.check \o Written(z)
           right == z.stream.right /\ sum = WholeText(z.stream)
       IN  z' = [Took(z, 1) EXCEPT !.check = sum, !.out = z.left,
                                   !.mode = IF right THEN "DONE" ELSE "BAD"]

Next ==
    \/ \E have \in 0 .. MaxIn, left \in 0 .. MaxRoom, flush \in {"no", "block", "finish"} :
         Inflate(have, left, flush)
    \/ InflateReset \/ SetDictionary \/ Return \/ NeedDict
    \/ Header \/ Dict \/ Type \/ TypeDo \/ Stored \/ Copy
    \/ Fast \/ Len_ \/ Dist \/ Lit \/ Match \/ Check

Spec == Init /\ [][Next]_z
-----------------------------------------------------------------------------
\* Type correctness: what the window holds is the end of the dictionary and of all that
\* was put out in earlier calls, so that every legal distance can be served.
Place(wnext, whave, j) ==
    IF wnext - whave + j - 1 < 0 THEN wnext - whave + j - 1 + WSize ELSE wnext - whave + j - 1
Window(e) == [j \in 1 .. e.whave |-> e.window[Place(e.wnext, e.whave, j)]]
EndOf(t, n) == SubSeq(t, Len(t) - n + 1, Len(t))
TypeOK ==
    /\ z.stream \in Streams /\ z.at \in 1 .. Len(z.stream.units) + 1
    /\ z.wnext \in 0 .. WSize - 1 /\ z.whave \in 0 .. WSize /\ z.wsize \in {0, WSize}
    /\ z.whave < WSize => z.whave = z.wnext
    /\ z.inside => z.have >= 0 /\ z.left >= 0 /\ Len(z.buf) >= Wrote(z)
    /\ z.mode \in {"TYPE", "TYPEDO", "COPY", "LEN", "DIST", "LIT", "MATCH"} /\ z.wsize > 0 =>
         LET t == (IF z.havedict THEN z.stream.dict ELSE <<>>)
                    \o z.past \o (IF z.inside THEN <<>> ELSE z.buf)
         IN  z.whave = Min({WSize, Len(t)}) /\ Window(z) = EndOf(t, z.whave)

Promise == INSTANCE Unpacked WITH
    stream <- z.stream, text <- z.past \o z.buf,
    status <- CASE z.mode = "DONE" -> "end" [] z.mode = "BAD" -> "error"
                [] z.mode = "MEM" -> "memory" [] OTHER -> "on"

\* A call with input and room makes progress, unless it asks for a dictionary or the
\* stream is over.  With Z_BLOCK one that is to go on after a dictionary does not: it
\* stops before the first block with Z_BUF_ERROR.
Progress == ~z.stuck

\* However a stream and the room for its text are cut into calls, whether symbols are
\* decoded quickly or one piece at a time, with a dictionary, after a reset and at each
\* return within a block: the text is the same, and errors are those of the stream.
IsText == Promise!Spec /\ []Progress
=============================================================================
