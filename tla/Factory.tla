------------------------------- MODULE Factory -------------------------------
(***************************************************************************)
(* The text form of commands (engine/e_basic_factory.cpp): parse_native    *)
(* turns one line "name hh hh ..." into the bytes <<id lo, id hi, b, ...>> *)
(* against the table of command names, print_native does the reverse, and  *)
(* parse_multi / print_multi do the same for a text of several lines.      *)
(*                                                                         *)
(* The text is abstracted to lexemes: what the parser's " %a " reads (an   *)
(* identifier), what " %X " reads (a hexadecimal number, of any size), a   *)
(* line feed, and anything else.  Blanks only separate lexemes and are     *)
(* left out.  The parser itself (core/parser) is not in the repository.    *)
(*                                                                         *)
(* The state is the debug console's: a text being typed or printed, and   *)
(* the commands parsed from it or to be printed.                           *)
(***************************************************************************)
EXTENDS Integers, Sequences, SequencesExt

CONSTANTS
    Table,    \* ids::table, the native command names, in id order
    Names,    \* identifiers a user may type
    Numbers,  \* hexadecimal numbers a user may type
    Seqs,     \* byte sequences that may be printed
    MaxText,  \* bound on the lexemes typed
    MaxCmds,  \* bound on the sequences loaded for printing
    SessionResponseId, \* ids::session_response
    MaxKeySize         \* session_response::max_key_size (1024)

VARIABLES
    text,  \* the command text, a sequence of lexemes
    cmds   \* the byte sequences of the commands

vars == <<text, cmds>>

NL      == [k |-> "nl", v |-> 0]
Junk    == [k |-> "junk", v |-> 0]
Ident(n) == [k |-> "id", v |-> n]
Num(x)  == [k |-> "num", v |-> x]

Lexemes == {NL, Junk} \cup {Ident(n) : n \in Names} \cup {Num(x) : x \in Numbers}

\* serial::wr<uint16_t> and prime_impact::get_id_unsafe: little endian.
LE2(id) == <<id % 256, id \div 256>>
IdOf(seq) == seq[1] + 256 * seq[2]

\* A mutant of parse_native: the 0xff check on a byte is dropped, and
\* static_cast<uint8_t> keeps the low byte of the number read.
ParseNativeNoByteCheck(table, command) ==
    LET rest == Tail(command)
    IN  IF command = <<>> \/ command[1].k # "id" \/ command[1].v \notin Range(table)
           \/ \E i \in DOMAIN rest : rest[i].k # "num"
        THEN <<>>
        ELSE LE2(SelectInSeq(table, LAMBDA t : t = command[1].v) - 1)
             \o [i \in DOMAIN rest |-> rest[i].v % 256]

(* parse_native: an identifier that names a table entry (the first one,    *)
(* as the loop breaks there), then bytes, then the end of the line.  " %X " *)
(* reads every number; the first one above 0xff, or anything that is not a *)
(* number after the id ("EOF expected"), makes the whole result empty.     *)
ParseNative(table, command) ==
    LET rest == Tail(command)
        name == command[1].v
    IN  IF \/ command = <<>>
           \/ command[1].k # "id"
           \/ name \notin Range(table)
           \/ \E i \in DOMAIN rest : rest[i].k # "num" \/ rest[i].v > 255
        THEN <<>>
        ELSE LE2(SelectInSeq(table, LAMBDA t : t = name) - 1)
             \o [i \in DOMAIN rest |-> rest[i].v]

\* A mutant of print_native: the byte loop starts at index 1.
PrintNativeFrom1(table, seq) ==
    IF Len(seq) >= 2 /\ IdOf(seq) < Len(table)
    THEN <<Ident(table[IdOf(seq) + 1])>> \o [i \in 1..(Len(seq) - 1) |-> Num(seq[i + 1])]
    ELSE <<>>

(* print_native: the name of the id and " %02x" per byte after it; an      *)
(* empty string for a sequence shorter than 2 or an id not in the table.   *)
PrintNative(table, seq) ==
    IF Len(seq) >= 2 /\ IdOf(seq) < Len(table)
    THEN <<Ident(table[IdOf(seq) + 1])>> \o [i \in 1..(Len(seq) - 2) |-> Num(seq[i + 2])]
    ELSE <<>>

\* basic_factory::parse and ::print: the native functions over ids::table.
ParseCommand(command) == ParseNative(Table, command)
PrintCommand(seq) == PrintNative(Table, seq)

IsNL(l) == l = NL

\* A mutant of the line split: each line keeps its line feed.
RECURSIVE SplitWithNL(_)
SplitWithNL(t) ==
    LET i == SelectInSeq(t, IsNL)
    IN  IF i = 0 THEN <<>> ELSE <<SubSeq(t, 1, i)>> \o SplitWithNL(SubSeq(t, i + 1, Len(t)))

(* parse_multi's scan: a line ends at each '\n' and the next starts after  *)
(* it (index = i + 1).  What follows the last '\n' is never a line.       *)
RECURSIVE Split(_)
Split(t) ==
    LET i == SelectInSeq(t, IsNL)
    IN  IF i = 0 THEN <<>> ELSE <<SubSeq(t, 1, i - 1)>> \o Split(SubSeq(t, i + 1, Len(t)))

ParseMulti(commands) == LET lines == Split(commands) IN [i \in DOMAIN lines |-> ParseCommand(lines[i])]

PrintMulti(seqs) == FlattenSeq([i \in DOMAIN seqs |-> PrintCommand(seqs[i]) \o <<NL>>])

(* protocol/session_response.h: the id and port, two bytes each (n_port  *)
(* = 2, n_key = 4), then the key; the constructor keeps at most           *)
(* max_key_size bytes of it.                                               *)
TruncKey(key) == SubSeq(key, 1, Min({Len(key), MaxKeySize}))

EncodeResponse(port, key) == LE2(SessionResponseId) \o LE2(port) \o TruncKey(key)

ScanResponse(seq) == Len(seq) >= 4 /\ IdOf(seq) = SessionResponseId

GetPort(seq) == seq[3] + 256 * seq[4]

\* A mutant of get_key: the key is read from n_port.
GetKeyFromPort(seq) == IF Len(seq) > 2 THEN SubSeq(seq, 3, Len(seq)) ELSE <<>>

GetKey(seq) == IF Len(seq) > 4 THEN SubSeq(seq, 5, Len(seq)) ELSE <<>>

DecodeResponse(seq) == [port |-> GetPort(seq), key |-> TruncKey(GetKey(seq))]

-----------------------------------------------------------------------------
Init ==
    /\ text = <<>>
    /\ cmds = <<>>

\* The user types a lexeme.
Type(l) ==
    /\ Len(text) < MaxText
    /\ text' = Append(text, l)
    /\ UNCHANGED cmds

\* A byte sequence (from the log, say) is queued for printing.
Load(s) ==
    /\ Len(cmds) < MaxCmds
    /\ cmds' = Append(cmds, s)
    /\ UNCHANGED text

\* parse_multi of the whole text.
DoParseMulti ==
    /\ cmds' = ParseMulti(text)
    /\ UNCHANGED text

\* print_multi of the loaded sequences.
DoPrintMulti ==
    /\ text' = PrintMulti(cmds)
    /\ UNCHANGED cmds

Next ==
    \/ \E l \in Lexemes : Type(l)
    \/ \E s \in Seqs : Load(s)
    \/ DoParseMulti
    \/ DoPrintMulti

Spec == Init /\ [][Next]_vars

-----------------------------------------------------------------------------
WellFormed(seq) == Len(seq) >= 2 /\ IdOf(seq) < Len(Table)

(* print_multi then parse_multi gives one command per printed sequence,    *)
(* in order: each sequence the table can name comes back unchanged and     *)
(* every other one comes back empty.                                       *)
RoundTrip ==
    ParseMulti(PrintMulti(cmds)) = [i \in DOMAIN cmds |-> IF WellFormed(cmds[i]) THEN cmds[i] ELSE <<>>]

(* What the console sends is what was typed: when the commands are those  *)
(* parse_multi read from the text, every command it did not reject prints  *)
(* back (print_native) to exactly the line it was read from.  parse_native *)
(* must refuse a number above 0xff rather than store its low byte.         *)
TypedAsShown ==
    cmds = ParseMulti(text) =>
      \A i \in DOMAIN cmds :
        cmds[i] # <<>> => PrintCommand(cmds[i]) = Split(text)[i]

(* A command that scans as a session_response, typed or loaded, decodes   *)
(* to a port and key whose encoding is the command again, cut after        *)
(* max_key_size key bytes: encode_to and get_port / get_key agree on the   *)
(* layout, and nothing but an over-long key is lost.                       *)
ResponseReencodes ==
    \A i \in DOMAIN cmds :
      LET c == cmds[i]
      IN  ScanResponse(c) =>
            LET r == DecodeResponse(c)
            IN  EncodeResponse(r.port, r.key) = SubSeq(c, 1, Min({Len(c), 4 + MaxKeySize}))

=============================================================================
