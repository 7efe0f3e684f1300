----------------------------- MODULE LogLines -------------------------------
(***************************************************************************)
(* The container logger (server/io/logger.go): redirectLogs reads the      *)
(* output of a container through a buffer and writes it to the log as      *)
(* lines, cut where they are longer than maxLen and tagged "F" (full) or   *)
(* "P" (partial).  A step is one turn of its loop.                         *)
(***************************************************************************)
EXTENDS Naturals, Sequences, Joining

CONSTANTS
    Bytes,               \* the bytes a container writes
    MaxInput,            \* bound on the length of the output
    MaxLens,             \* the values of MaxContainerLogLineSize; 0 is no limit
    defaultBufSize,
    minReadBufferSize    \* the least size of a bufio.Reader

VARIABLES
    maxLen, input,       \* the limit and the whole output, fixed at the start
    rest,                \* what is still to be read
    buf,                 \* the current line so far, its pieces joined
    lastLen,             \* the length of its last piece
    written,             \* the lines handed to the log file: a tag and a content
    redirect             \* "running", "done" or "panic"

logVars == <<maxLen, input, rest, buf, lastLen, written, redirect>>

CR == "\r"
LF == "\n"

LogTypeOK ==
    /\ maxLen \in MaxLens /\ redirect \in {"running", "done", "panic"}
    /\ \E n \in 0 .. Len(input) : rest = SubSeq(input, n + 1, Len(input))
    /\ lastLen \in 0 .. Len(buf)
    /\ \A i \in DOMAIN written : written[i].tag \in {"F", "P"}

LogInit ==
    /\ maxLen \in MaxLens
    /\ \E n \in 0..MaxInput : input \in [1..n -> Bytes]
    /\ rest = input /\ buf = <<>> /\ lastLen = 0 /\ written = <<>> /\ redirect = "running"

----------------------------------------------------------------------------

(* The size of the reader's buffer: bufio does not go below its own minimum. *)
bufSize ==
    LET size == IF maxLen > 0 /\ maxLen < defaultBufSize THEN maxLen ELSE defaultBufSize
    IN  IF size < minReadBufferSize THEN minReadBufferSize ELSE size

Least(S) == CHOOSE i \in S : \A j \in S : i <= j

(* bufio.Reader.ReadSlice('\n'): up to a line end, a full buffer or the end. *)
ReadSlice(s) ==
    LET ends == {i \in DOMAIN s : s[i] = LF /\ i <= bufSize}
    IN  IF ends # {} THEN [line |-> SubSeq(s, 1, Least(ends)), err |-> "nil"]
        ELSE IF Len(s) >= bufSize THEN [line |-> SubSeq(s, 1, bufSize), err |-> "full"]
        ELSE [line |-> s, err |-> "EOF"]

(* A bug: a '\r' at the end of a full buffer is not put back. *)
droppedNoUnread(r) ==
    IF r.err # "nil" THEN 0
    ELSE IF Len(r.line) > 1 /\ r.line[Len(r.line) - 1] = CR THEN 2 ELSE 1

(* The bytes at the end of a slice that are not part of the line: its line end,
   or the '\r' of a full buffer, which may belong to a line end. *)
dropped(r) ==
    IF r.err = "full" THEN IF Len(r.line) > 0 /\ r.line[Len(r.line)] = CR THEN 1 ELSE 0
    ELSE IF r.err = "EOF" THEN 0
    ELSE IF Len(r.line) > 1 /\ r.line[Len(r.line) - 1] = CR THEN 2 ELSE 1

(* What is dropped from a full buffer is put back. *)
readLine(s) ==
    LET r == ReadSlice(s)
        unread == IF r.err = "full" THEN dropped(r) ELSE 0
    IN  [line |-> SubSeq(r.line, 1, Len(r.line) - dropped(r)), isPrefix |-> r.err = "full",
         err |-> IF r.err = "EOF" THEN "EOF" ELSE "nil",
         rest |-> SubSeq(s, Len(r.line) - unread + 1, Len(s))]

Line(tag, content) == [tag |-> tag, content |-> content]

(* One turn of the loop of redirectLogs. *)
redirectLogs ==
    /\ redirect = "running"
    /\ LET r == readLine(rest)
           all == buf \o r.line
           last == IF r.line # <<>> THEN Len(r.line) ELSE lastLen
           exceedLen == IF maxLen > 0 /\ Len(all) > maxLen THEN Len(all) - maxLen ELSE 0
           cut == IF exceedLen = 0 THEN <<>> ELSE <<Line("P", SubSeq(all, 1, maxLen))>>
           left == IF exceedLen = 0 THEN all ELSE SubSeq(all, maxLen + 1, Len(all))
           stop == r.err = "EOF"
       IN  /\ rest' = r.rest
           /\ IF stop /\ Len(all) = 0
              THEN redirect' = "done" /\ UNCHANGED <<buf, lastLen, written>>
              ELSE IF exceedLen > last
              THEN redirect' = "panic" /\ UNCHANGED <<buf, lastLen, written>>
              ELSE IF r.isPrefix
              THEN /\ buf' = left /\ lastLen' = IF exceedLen = 0 THEN last ELSE exceedLen
                   /\ written' = written \o cut /\ UNCHANGED redirect
              ELSE /\ written' = written \o cut \o <<Line(IF stop THEN "P" ELSE "F", left)>>
                   /\ buf' = <<>> /\ lastLen' = 0
                   /\ redirect' = IF stop THEN "done" ELSE redirect
    /\ UNCHANGED <<maxLen, input>>

(* The output has ended and is in the log. *)
LogEnded == redirect # "running" /\ UNCHANGED logVars

LogNext == redirectLogs \/ LogEnded

LogSpec == LogInit /\ [][LogNext]_logVars

----------------------------------------------------------------------------

(* What the lines of a log say: their contents, and a line end after a full one. *)
Said(lines) ==
    Join([i \in DOMAIN lines |->
             lines[i].content \o IF lines[i].tag = "F" THEN <<LF>> ELSE <<>>])

(* An output with "\n" for every "\r\n". *)
Unified(s) == Select(s, {i \in DOMAIN s : ~ (s[i] = CR /\ i < Len(s) /\ s[i + 1] = LF)})

(* What is in the log is the output: at any time what the log says, followed by
   the line so far and by what is still to be read, is the output with its line
   ends unified, wherever the ends of the buffer and of the pieces fall; so a
   line tagged "F" ends where the output has a line end, and only there.  No
   line of the log has a line end in it or is longer than the limit. *)
LogRight ==
    /\ LogTypeOK
    /\ redirect # "panic"
    /\ \A i \in DOMAIN written :
          /\ maxLen > 0 => Len(written[i].content) <= maxLen
          /\ \A j \in DOMAIN written[i].content : written[i].content[j] # LF
    /\ redirect = "running" => Said(written) \o buf \o Unified(rest) = Unified(input)
    /\ redirect = "done" => Said(written) = Unified(input)

(* "exceedLen must <= len(last), or else the buffer should have be written in
   the previous iteration": the panic is never reached. *)
ExceedsOnlyLast == redirect # "panic"
============================================================================
