----------------------------- MODULE Management -----------------------------
(***************************************************************************)
(* The management socket (management.cc).  mgmt_thread polls the listening *)
(* socket and the one open connection.  It accepts a new connection, drops *)
(* the connection on POLLERR/POLLHUP, or calls get_input.  get_input reads *)
(* into the static input_buffer until read() has nothing more.  Each        *)
(* newline-terminated line goes to process_line, and what follows the last *)
(* newline is meant to be kept for the next read.                          *)
(*                                                                         *)
(* Clients connect one after another, each sending the byte stream its     *)
(* entry of `script` holds and then closing.  Bytes are NL or a member of   *)
(* Chars; what a line says (the command) is not modelled, only which bytes *)
(* it is made of.                                                          *)
(***************************************************************************)
EXTENDS Naturals, Sequences, SequencesExt

CONSTANTS
    BUF_SZ,     \* size of input_buffer (4096 in the code)
    NL,         \* '\n'
    Chars,      \* the other bytes a client may send
    Scripts     \* what successive clients may send: sequences of byte streams

VARIABLES
    script,     \* the streams of this behaviour's clients (chosen once)
    cl,         \* per client that has connected: [sent, rd, st], st is
                \* "open", "fin" (the client closed) or "reset" (the
                \* connection was reset after a response hit the closed peer)
    pending,    \* a connection waits in the listen backlog
    skt,        \* skt_fd: the client it is connected to, or 0 for -1
    buf,        \* input_buffer[0 .. current_input_pos - 1]
    pc,         \* "poll" or "input" (inside get_input's loop)
    processed   \* the lines handed to process_line: [c: client, l: bytes]

vars == <<script, cl, pending, skt, buf, pc, processed>>

Bytes == Chars \cup {NL}

Avail(c) == cl[c].sent - cl[c].rd

\* The complete lines of a byte stream, in order.
RECURSIVE LinesOf(_)
LinesOf(s) ==
    LET i == SelectInSeq(s, LAMBDA b : b = NL)
    IN  IF i = 0 THEN <<>>
        ELSE <<SubSeq(s, 1, i - 1)>> \o LinesOf(SubSeq(s, i + 1, Len(s)))

\* The position after the last newline of s (start_pt after the scan).
StartPt(s) == SelectLastInSeq(s, LAMBDA b : b = NL)

-----------------------------------------------------------------------------
(* The clients *)

\* The next client connects; it waits in the backlog until accepted.
Connect ==
    /\ ~pending
    /\ Len(cl) < Len(script)
    /\ pending' = TRUE
    /\ cl' = Append(cl, [sent |-> 0, rd |-> 0, st |-> "open"])
    /\ UNCHANGED <<script, skt, buf, pc, processed>>

\* A connected client sends its next byte.
Send(c) ==
    /\ cl[c].st = "open" /\ cl[c].sent < Len(script[c])
    /\ cl' = [cl EXCEPT ![c].sent = @ + 1]
    /\ UNCHANGED <<script, pending, skt, buf, pc, processed>>

\* A client closes; later a response written to it provokes a reset.
Close(c) ==
    /\ cl[c].st = "open"
    /\ cl' = [cl EXCEPT ![c].st = "fin"]
    /\ UNCHANGED <<script, pending, skt, buf, pc, processed>>

Reset(c) ==
    /\ cl[c].st = "fin"
    /\ cl' = [cl EXCEPT ![c].st = "reset"]
    /\ UNCHANGED <<script, pending, skt, buf, pc, processed>>

-----------------------------------------------------------------------------
(* The management thread *)

\* One trip round mgmt_thread's loop.  poll() returns when the listening
\* socket has a connection or skt_fd is readable (data, or EOF) or in
\* error.  f[1].revents are those of the skt_fd polled, even when the
\* accept has just replaced skt_fd.
MgmtPoll ==
    /\ pc = "poll"
    /\ LET f0   == pending
           f1in == skt # 0 /\ cl[skt].st # "reset" /\ (Avail(skt) > 0 \/ cl[skt].st = "fin")
           hup  == skt # 0 /\ cl[skt].st = "reset"
           new  == IF f0 THEN Len(cl) ELSE skt
       IN  /\ f0 \/ f1in \/ hup
           /\ pending' = FALSE
           /\ skt' = IF hup THEN 0 ELSE new
           /\ pc' = IF ~hup /\ f1in THEN "input" ELSE "poll"
    /\ UNCHANGED <<script, cl, buf, processed>>

\* process_line for each line of b, which came from client c.
ProcessLines(c, b) ==
    processed' = processed \o [i \in 1 .. Len(LinesOf(b)) |-> [c |-> c, l |-> LinesOf(b)[i]]]

\* After the scan: the bytes after the last newline are copied down only
\* if start_pt < current_input_pos - 1; otherwise the buffer is emptied.
KeepTail(b) ==
    IF StartPt(b) < Len(b) - 1 THEN SubSeq(b, StartPt(b) + 1, Len(b)) ELSE <<>>

\* One iteration of get_input's loop: read() returns what has arrived, up
\* to the room left; hand on the lines, keep the tail.  (How the bytes
\* were split into segments is the interleaving of Send with this.)
GetInputRead ==
    /\ pc = "input" /\ Len(buf) < BUF_SZ - 1
    /\ Avail(skt) > 0 /\ cl[skt].st # "reset"
    /\ LET r == Min({Avail(skt), BUF_SZ - 1 - Len(buf)})
           b == buf \o SubSeq(script[skt], cl[skt].rd + 1, cl[skt].rd + r)
       IN  /\ cl' = [cl EXCEPT ![skt].rd = @ + r]
           /\ ProcessLines(skt, b)
           /\ buf' = KeepTail(b)
    /\ UNCHANGED <<script, pending, skt, pc>>

\* read() returns 0 (EOF) or -1 with EAGAIN: out of the loop.
GetInputDone ==
    /\ pc = "input" /\ Len(buf) < BUF_SZ - 1
    /\ Avail(skt) = 0 /\ cl[skt].st # "reset"
    /\ pc' = "poll"
    /\ UNCHANGED <<script, cl, pending, skt, buf, processed>>

\* read() fails otherwise: close the connection, skt_fd = -1.
GetInputError ==
    /\ pc = "input" /\ Len(buf) < BUF_SZ - 1
    /\ cl[skt].st = "reset"
    /\ skt' = 0 /\ pc' = "poll"
    /\ UNCHANGED <<script, cl, pending, buf, processed>>

\* The buffer is full (no newline in BUF_SZ - 1 bytes): the loop ends.
GetInputFull ==
    /\ pc = "input" /\ Len(buf) >= BUF_SZ - 1
    /\ pc' = "poll"
    /\ UNCHANGED <<script, cl, pending, skt, buf, processed>>

-----------------------------------------------------------------------------

Init ==
    /\ script \in Scripts
    /\ cl = <<>> /\ pending = FALSE /\ skt = 0
    /\ buf = <<>> /\ pc = "poll" /\ processed = <<>>

Next ==
    \/ Connect
    \/ \E c \in 1 .. Len(cl) : Send(c) \/ Close(c) \/ Reset(c)
    \/ MgmtPoll \/ GetInputRead \/ GetInputDone \/ GetInputError \/ GetInputFull

Spec == Init /\ [][Next]_vars

-----------------------------------------------------------------------------

\* The lines process_line receives from a client are that client's
\* newline-terminated lines, in order and intact: get_input keeps a
\* partial line across reads (its comment says so) and a connection's
\* lines are its own.
LinesIntact ==
    \A c \in 1 .. Len(cl) :
        IsPrefix(SelectSeq(processed, LAMBDA p : p.c = c),
                 [i \in 1 .. Len(LinesOf(script[c])) |-> [c |-> c, l |-> LinesOf(script[c])[i]]])

==============================================================================
