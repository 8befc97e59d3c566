------------------------------ MODULE SharedBuf ------------------------------
(***************************************************************************)
(* The copy loops of shared_buf.cpp.  The core posts a text in WRITEBUF, or *)
(* gets one in READBUF; the mbed moves it word by word over JTAG between    *)
(* the RAM and a buffer of BUF_SIZE bytes, and writes the return value of   *)
(* the service to ACK_RETURN_VAL, which is the last word of READBUF.  One   *)
(* step is one word.  In the code a word has 4 bytes, both areas have 31    *)
(* words and BUF_SIZE is 120.                                               *)
(***************************************************************************)
EXTENDS Integers, Sequences

CONSTANTS
    WordBytes,   \* bytes of a word
    BufWords,    \* words of WRITEBUF and of READBUF
    Chars,       \* characters of a text
    MaxText      \* longest text the core posts

Nul == "nul"
Old == "old"                    \* what an earlier text has left behind
Bytes == Chars \cup {Nul, Old}

BufBytes == WordBytes * BufWords                     \* WRITEBUF_END - WRITEBUF_BEGIN
BUF_SIZE == BufBytes - WordBytes
Words == 0 .. BufWords - 1
RetWord == BufWords - 1                              \* ACK_RETURN_VAL - READBUF_BEGIN
Texts(max) == UNION {[1 .. n -> Chars] : n \in 0 .. max}

VARIABLES
    pc,        \* "idle", "wbuf", "rbuf" or "ack"
    svc,       \* the service in progress or done last: "print" or "scan"
    writebuf,  \* the words of WRITEBUF
    readbuf,   \* the words of READBUF
    buffer,    \* the characters written to the buffer of the mbed so far
    source,    \* the text the service delivers to the core
    i,         \* the word the loop has come to
    len,       \* characters copied
    posted,    \* the text the core has posted
    ret        \* what the last service returned

vars == <<pc, svc, writebuf, readbuf, buffer, source, i, len, posted, ret>>

Word(text, w) ==
    [j \in 1 .. WordBytes |->
        LET k == w * WordBytes + j IN
        IF k <= Len(text) THEN text[k] ELSE IF k = Len(text) + 1 THEN Nul ELSE Old]

(* The bytes of an area of words, and what a reader finds up to the terminator. *)
Flat(area) == [k \in 1 .. BufBytes |-> area[(k - 1) \div WordBytes][((k - 1) % WordBytes) + 1]]
Upto(area) ==
    LET flat == Flat(area)
        ends == {k \in 1 .. BufBytes : flat[k] = Nul}
        end  == IF ends = {} THEN BufBytes ELSE (CHOOSE k \in ends : \A l \in ends : k <= l) - 1
    IN  SubSeq(flat, 1, end)

Init ==
    /\ pc = "idle" /\ svc = "none" /\ i = 0 /\ len = 0 /\ ret = 0
    /\ writebuf = [w \in Words |-> [j \in 1 .. WordBytes |-> Old]]
    /\ readbuf = writebuf
    /\ buffer = <<>> /\ source = <<>> /\ posted = <<>>

(* The core posts a text, with a terminator if there is room for one in       *)
(* WRITEBUF.                                                                  *)
CorePost ==
    /\ pc = "idle"
    /\ \E t \in Texts(MaxText) : posted' = t /\ writebuf' = [w \in Words |-> Word(t, w)]
    /\ pc' = "wbuf" /\ svc' = "print" /\ i' = 0 /\ len' = 0 /\ buffer' = <<>>
    /\ UNCHANGED <<readbuf, source, ret>>

(* A device has delivered a text for the core: the receivers take at most     *)
(* BUF_SIZE characters, the terminal one less.                                *)
Deliver ==
    /\ pc = "idle"
    /\ \E t \in Texts(BUF_SIZE) : source' = t
    /\ pc' = "rbuf" /\ svc' = "scan" /\ i' = 0 /\ len' = 0
    /\ UNCHANGED <<writebuf, readbuf, buffer, posted, ret>>

(* Mutant of Count: the terminator is looked for in the first bytes only. *)
Count_NotLast(word) ==
    LET ends == {j \in 1 .. WordBytes - 1 : word[j] = Nul} IN
    IF ends = {} THEN WordBytes ELSE (CHOOSE j \in ends : \A l \in ends : j <= l) - 1

(* Characters of a word before its terminator. *)
Count(word) ==
    LET ends == {j \in 1 .. WordBytes : word[j] = Nul} IN
    IF ends = {} THEN WordBytes ELSE (CHOOSE j \in ends : \A l \in ends : j <= l) - 1

(* One round of the loop of jtag_writebuffer. *)
jtag_writebuffer ==
    /\ pc = "wbuf"
    /\ LET n == Count(writebuf[i])
           finished == n < WordBytes \/ i + 1 = BufWords
       IN  /\ buffer' = buffer \o SubSeq(writebuf[i], 1, n)
           /\ len' = len + n
           /\ i' = i + 1
           /\ pc' = IF finished THEN "ack" ELSE "wbuf"
    /\ UNCHANGED <<svc, writebuf, readbuf, source, posted, ret>>

TextEnds(n) == n < WordBytes

(* One round of the loop of jtag_readbuffer: the rest of the last word is     *)
(* filled with terminators.                                                   *)
jtag_readbuffer ==
    /\ pc = "rbuf"
    /\ LET rest == SubSeq(source, len + 1, Len(source))
           n == IF Len(rest) < WordBytes THEN Len(rest) ELSE WordBytes
           finished == TextEnds(n)
       IN  /\ readbuf' = [readbuf EXCEPT ![i] = [j \in 1 .. WordBytes |-> IF j <= n THEN rest[j] ELSE Nul]]
           /\ len' = len + n
           /\ i' = i + 1
           /\ pc' = IF finished \/ i + 1 = BufWords THEN "ack" ELSE "rbuf"
    /\ UNCHANGED <<svc, writebuf, buffer, source, posted, ret>>

(* The worker writes the length the service returned to ACK_RETURN_VAL. *)
Acknowledge ==
    /\ pc = "ack"
    /\ readbuf' = [readbuf EXCEPT ![RetWord] = [j \in 1 .. WordBytes |-> Old]]
    /\ ret' = len
    /\ pc' = "idle"
    /\ UNCHANGED <<svc, writebuf, buffer, source, i, len, posted>>

Next == CorePost \/ Deliver \/ jtag_writebuffer \/ jtag_readbuffer \/ Acknowledge

Spec == Init /\ [][Next]_vars

-----------------------------------------------------------------------------
(* The copy of a posted text is the text, whatever earlier texts have left    *)
(* behind it in WRITEBUF: also when it ends with a word, or fills WRITEBUF    *)
(* and has no terminator.                                                     *)
CopyExact ==
    pc = "ack" /\ svc = "print" => buffer = posted /\ len = Len(posted)

(* After the acknowledgement the core finds in READBUF the characters the     *)
(* device delivered, and their number, although the return value is written   *)
(* into the last word of READBUF; and the text ends there unless it has       *)
(* BUF_SIZE characters, when the return value has taken its terminator.       *)
ReadbackIntact ==
    pc = "idle" /\ svc = "scan" =>
        /\ SubSeq(Flat(readbuf), 1, Len(source)) = source /\ ret = Len(source)
        /\ Len(source) < BUF_SIZE => Upto(readbuf) = source

(* The copy and its terminator stay inside the buffer of the mbed.            *)
(* Not what the code does: README.md, "Known disagreements". *)
WithinBuffer == pc = "ack" /\ svc = "print" => Len(buffer) + 1 <= BUF_SIZE

(* The core finds the terminator of every text.                               *)
(* Not what the code does: README.md, "Known disagreements". *)
TextEnded == pc = "idle" /\ svc = "scan" => Upto(readbuf) = source

=============================================================================
