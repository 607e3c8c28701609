--------------------------- MODULE StreamBuffers ---------------------------
(***************************************************************************)
(* The four buffers that the program fills piece by piece and terminates:  *)
(*   stream - stream_fd_content_alloc(), which doubles what it allocated,  *)
(*   pacman - record_pacman_output(), which counts what it allocated in a  *)
(*            variable of its own,                                         *)
(*   curl   - receive_info(), called by libcurl for each piece,            *)
(*   post   - gen_postfields(), whose array was sized beforehand.          *)
(* A piece is what one read() gives, one call of libcurl, or one argument  *)
(* of the request.  The text is numbered: its n-th character is n.         *)
(***************************************************************************)
EXTENDS Integers, Sequences

CONSTANTS
  Fragment,  \* FRAG_SIZE, 1024: the first allocation and the longest read()
  MaxPieces, \* pieces of a text
  MaxFaults  \* failed calls in a behaviour

ASSUME FragmentAssumption == Fragment \in Nat \ {0}
ASSUME PiecesAssumption == MaxPieces \in Nat /\ MaxFaults \in Nat

Readers == {"stream", "pacman", "curl", "post"}

VARIABLES
  reader,  \* which of the four
  pieces,  \* the lengths of the pieces to come
  pc,      \* "read", "store" the piece that was read, "done", "null", "dead"
  frag,    \* its length
  got,     \* what is stored: n_read, n_chars_read, size, p
  size,    \* what is allocated
  counted, \* pacman_output_size
  text,    \* the content
  end,     \* where the terminator was written
  broken   \* failed calls

vars == <<reader, pieces, pc, frag, got, size, counted, text, end, broken>>

NoEnd == -2

\* The length of a whole text.
Sum(s) == LET sum[k \in 0 .. Len(s)] == IF k = 0 THEN 0 ELSE s[k] + sum[k - 1]
          IN sum[Len(s)]

-----------------------------------------------------------------------------
\* detemine_postfields_size() sizes the array of the request by its arguments.
Init ==
  /\ reader \in Readers
  /\ pieces \in UNION {[1 .. n -> 1 .. Fragment] : n \in 0 .. MaxPieces}
  /\ size = IF reader = "post" THEN Sum(pieces) ELSE IF reader = "curl" THEN 0 ELSE Fragment
  /\ pc = "read" /\ frag = 0 /\ got = 0 /\ counted = 0 /\ text = <<>>
  /\ end = NoEnd /\ broken = 0

Fault == broken < MaxFaults /\ broken' = broken + 1

Read ==
  /\ pc = "read" /\ pieces # <<>>
  /\ frag' = Head(pieces) /\ pieces' = Tail(pieces) /\ pc' = "store"
  /\ UNCHANGED <<reader, got, size, counted, text, end, broken>>

\* The piece is copied behind what is there.
Copied ==
  /\ text' = text \o [k \in 1 .. frag |-> got + k] /\ got' = got + frag
  /\ frag' = 0 /\ pc' = "read"

\* The loop that doubles content_size.
Double ==
  /\ reader = "stream" /\ pc = "store" /\ size < got + frag + 1
  /\ size' = 2 * size
  /\ UNCHANGED <<reader, pieces, pc, frag, got, counted, text, end, broken>>

\* Mutant of StoreStream: no place is kept for the terminator.
StoreStreamTight ==
  /\ reader = "stream" /\ pc = "store" /\ size >= got + frag
  /\ Copied /\ end' = got + frag
  /\ UNCHANGED <<reader, pieces, size, counted, broken>>

StoreStream ==
  /\ reader = "stream" /\ pc = "store" /\ size >= got + frag + 1
  /\ Copied /\ end' = got + frag
  /\ UNCHANGED <<reader, pieces, size, counted, broken>>

\* pacman_output_size starts at 0 although Fragment bytes are allocated, and a
\* whole fragment must fit before the next piece is copied.
Enough == IF counted - got >= Fragment THEN counted
          ELSE IF counted < Fragment THEN 2 * Fragment ELSE 2 * counted

StorePacman ==
  /\ reader = "pacman" /\ pc = "store"
  /\ counted' = Enough /\ size' = IF Enough = counted THEN size ELSE Enough
  /\ Copied
  /\ UNCHANGED <<reader, pieces, end, broken>>

StoreCurl ==
  /\ reader = "curl" /\ pc = "store"
  /\ size' = got + frag + 1 /\ Copied /\ end' = got + frag
  /\ UNCHANGED <<reader, pieces, counted, broken>>

StorePost ==
  /\ reader = "post" /\ pc = "store" /\ Copied
  /\ UNCHANGED <<reader, pieces, size, counted, end, broken>>

\* Mutant of EndStream: it ends with the first read() that gives less than it asked for.
EndStreamShort ==
  /\ reader = "stream" /\ pc = "read" /\ (pieces = <<>> \/ got % Fragment # 0)
  /\ IF got = 0 THEN pc' = "null" /\ size' = 0 ELSE pc' = "done" /\ size' = got + 1
  /\ UNCHANGED <<reader, pieces, frag, got, counted, text, end, broken>>

\* An empty text gives NULL, another one is cut to its length.
EndStream ==
  /\ reader = "stream" /\ pc = "read" /\ pieces = <<>>
  /\ IF got = 0 THEN pc' = "null" /\ size' = 0 ELSE pc' = "done" /\ size' = got + 1
  /\ UNCHANGED <<reader, pieces, frag, got, counted, text, end, broken>>

\* record_pacman_output() writes the terminator when all is read.
EndPacman ==
  /\ reader = "pacman" /\ pc = "read" /\ pieces = <<>> /\ pc' = "done" /\ end' = got
  /\ UNCHANGED <<reader, pieces, frag, got, size, counted, text, broken>>

\* libcurl has the whole answer; an empty one leaves response NULL.
EndCurl ==
  /\ reader = "curl" /\ pc = "read" /\ pieces = <<>>
  /\ pc' = IF got = 0 THEN "null" ELSE "done"
  /\ UNCHANGED <<reader, pieces, frag, got, size, counted, text, end, broken>>

\* The terminator takes the place of the last separator.
EndPost ==
  /\ reader = "post" /\ pc = "read" /\ pieces = <<>> /\ pc' = "done" /\ end' = got - 1
  /\ UNCHANGED <<reader, pieces, frag, got, size, counted, text, broken>>

\* read() or the transfer fails: only record_pacman_output() keeps what it has.
ReadFails ==
  /\ pc = "read" /\ reader # "post" /\ Fault
  /\ IF reader = "pacman" THEN pc' = "done" /\ end' = got ELSE pc' = "null" /\ UNCHANGED end
  /\ UNCHANGED <<reader, pieces, frag, got, size, counted, text>>

\* malloc() or realloc() fails; record_pacman_output() copies to NULL.
AllocFails ==
  /\ pc = "store" /\ Fault
  /\ \/ reader = "stream" /\ size < got + frag + 1 /\ pc' = "null"
     \/ reader = "pacman" /\ Enough # counted /\ pc' = "dead"
     \/ reader = "curl" /\ pc' = "null"
  /\ UNCHANGED <<reader, pieces, frag, got, size, counted, text, end>>

Next ==
  \/ Read \/ Double \/ StoreStream \/ StorePacman \/ StoreCurl \/ StorePost
  \/ EndStream \/ EndPacman \/ EndCurl \/ EndPost \/ ReadFails \/ AllocFails

Spec == Init /\ [][Next]_vars

-----------------------------------------------------------------------------
\* Nothing is written outside of what is allocated, with two exceptions: the
\* terminator of record_pacman_output() is one behind a text that fills all it
\* has counted, and that of gen_postfields() one before it without a package.
WithinBuffer ==
  /\ got <= size
  /\ end = NoEnd \/ end \in 0 .. size - 1
     \/ (reader = "pacman" /\ pc = "done" /\ end = counted /\ size = counted)
     \/ (reader = "post" /\ pc = "done" /\ end = -1 /\ size = 0)

\* The content is the text from its start without a gap or a repetition, all of
\* it unless a call failed, and it is terminated where it ends; NULL and the
\* empty text are the same only to stream_fd_content_alloc() and to libcurl.
ReadsWhole ==
  /\ text = [k \in 1 .. got |-> k]
  /\ pc = "done" => end = IF reader = "post" THEN got - 1 ELSE got
  /\ pc = "done" /\ broken = 0 => pieces = <<>>
  /\ pc = "null" /\ broken = 0 => got = 0 /\ pieces = <<>> /\ reader \in {"stream", "curl"}
=============================================================================
