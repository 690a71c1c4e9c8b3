------------------------------- MODULE BmConfig -------------------------------
(***************************************************************************)
(* Start-up of the bare-metal responder (arpresponder_bm_main.cc):        *)
(* read_config reads /tmp/arpresponder.conf with std::getline and keeps    *)
(* every non-empty line; main returns -1 when the file does not open,      *)
(* else calls add_interface for each kept line in order and then run().    *)
(*                                                                         *)
(* A file is a sequence of characters drawn from Chars; NL is '\n'.        *)
(* add_interface and run belong to the bare-metal ARPResponder, which the  *)
(* repository declares but does not implement: only the calls main makes   *)
(* are modelled.                                                           *)
(***************************************************************************)
EXTENDS Integers, Sequences, SequencesExt

CONSTANTS
    Chars,      \* the characters a file may hold, NL among them
    NL,         \* '\n'
    MaxLen      \* bound on the length of the file

Files == BoundedSeq(Chars, MaxLen)

\* The lines of a file as the spec describes it ("a newline-delimited list
\* of interface names"): the text between consecutive newlines, and the
\* text after the last one when the file does not end in a newline.
Lines(f) ==
    LET nls  == SelectSeq([i \in 1..Len(f) |-> i], LAMBDA i : f[i] = NL)
        ends == IF f # <<>> /\ f[Len(f)] # NL THEN Append(nls, Len(f) + 1) ELSE nls
        from(k) == IF k = 1 THEN 1 ELSE ends[k - 1] + 1
    IN [k \in 1..Len(ends) |-> SubSeq(f, from(k), ends[k] - 1)]

\* std::getline on the rest of the stream: the characters up to the next
\* NL, which it extracts and drops, or up to the end of the stream.
getline(rest) ==
    LET n == SelectInSeq(rest, LAMBDA c : c = NL) IN
    IF n = 0 THEN [line |-> rest, rest |-> <<>>]
    ELSE [line |-> SubSeq(rest, 1, n - 1), rest |-> SubSeq(rest, n + 1, Len(rest))]

\* Mutant: every line pushed, the empty ones included.
RECURSIVE read_config_keep_empty(_, _)
read_config_keep_empty(rest, result) ==
    IF rest = <<>> THEN result
    ELSE LET g == getline(rest) IN
         read_config_keep_empty(g.rest, Append(result, g.line))

\* while (std::getline(infile, line)) if (!line.empty()) result.push_back(line);
\* getline fails only at the end of the stream with nothing extracted.
RECURSIVE read_config_loop(_, _)
read_config_loop(rest, result) ==
    IF rest = <<>> THEN result
    ELSE LET g == getline(rest) IN
         read_config_loop(g.rest, IF g.line # <<>> THEN Append(result, g.line) ELSE result)

VARIABLES
    file,       \* the contents of /tmp/arpresponder.conf
    opened,     \* std::ifstream opened it
    interfaces, \* the vector read_config filled
    added,      \* the names main has passed to add_interface, in order
    pc          \* "read_config", "add", "run" (responder.run()), "exit" (return -1)

vars == <<file, opened, interfaces, added, pc>>

Init ==
    /\ file \in Files
    /\ opened \in BOOLEAN
    /\ interfaces = <<>>
    /\ added = <<>>
    /\ pc = "read_config"

\* if (!read_config("/tmp/arpresponder.conf", interfaces)) return -1;
read_config ==
    /\ pc = "read_config"
    /\ IF opened
       THEN interfaces' = read_config_loop(file, <<>>) /\ pc' = "add"
       ELSE pc' = "exit" /\ UNCHANGED interfaces
    /\ UNCHANGED <<file, opened, added>>

\* for (auto interface: interfaces) responder.add_interface(interface);
add_interface ==
    /\ pc = "add"
    /\ Len(added) < Len(interfaces)
    /\ added' = Append(added, interfaces[Len(added) + 1])
    /\ UNCHANGED <<file, opened, interfaces, pc>>

\* responder.run() once every name is added; it does not return.
run ==
    /\ pc = "add"
    /\ Len(added) = Len(interfaces)
    /\ pc' = "run"
    /\ UNCHANGED <<file, opened, interfaces, added>>

Next == read_config \/ add_interface \/ run

Spec == Init /\ [][Next]_vars

----------------------------------------------------------------------------

TypeOK ==
    /\ file \in Files
    /\ pc \in {"read_config", "add", "run", "exit"}
    /\ Len(added) <= Len(interfaces)

\* The responder starts serving with exactly the non-empty lines of the
\* configuration file registered, in file order: read_config's getline
\* loop splits at every newline, keeps an unterminated last line, and
\* drops the empty lines (blank lines and a trailing newline).
ConfiguredNamesAdded ==
    pc = "run" => added = SelectSeq(Lines(file), LAMBDA l : l # <<>>)

================================================================================
