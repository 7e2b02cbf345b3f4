------------------------------ MODULE Records ------------------------------
(***************************************************************************)
(* The numbers and lines of a record: the flags of `forge submit`, the     *)
(* text of jobs/<id>/meta, and the Meta the controller reads out of it     *)
(* (cmd_submit, parse_u64, parse_i64, validate_meta, meta_to_text,         *)
(* text_to_meta). One field stands for those of its kind: state and op for *)
(* the names, path for input and exec_path, workers, nice and mem_mb for   *)
(* the numbers. A text is a sequence of characters and words; integers     *)
(* have the width of their type, but fewer bits.                           *)
(***************************************************************************)
EXTENDS Integers, SequencesExt

CONSTANTS
    Base,           \* 10
    U,              \* 2^64
    I,              \* 2^32
    kMaxWorkers,
    MaxNice,        \* nice is in -MaxNice..MaxNice - 1
    MaxLength,      \* bound: characters of a number on the command line
    MaxSaves        \* bound: saves of the record

ASSUME RecordsAssumption ==
    /\ Base \in 2..10 /\ U \in Nat \ {0} /\ I \in Nat \ {0} /\ U % I = 0 /\ I % 2 = 0
    /\ kMaxWorkers \in 1..(I \div 2 - 1) /\ MaxNice \in 1..(I \div 2)
    /\ MaxLength \in Nat /\ MaxSaves \in Nat \ {0}

VARIABLES
    pc,         \* start, refused, accepted, save, saved, read, unreadable
    typed,      \* the flags of the command line
    meta,       \* Meta in memory
    text,       \* jobs/<id>/meta
    saved,      \* the Meta that was written
    saves,
    edited      \* did somebody else write into the file?

vars == <<pc, typed, meta, text, saved, saves, edited>>

-----------------------------------------------------------------------------
(* Numbers. A text is read as the one member of a set, or as nothing. *)

DigitChars == SubSeq(<<"0", "1", "2", "3", "4", "5", "6", "7", "8", "9">>, 1, Base)
IsDigit(c) == c \in Range(DigitChars)
Digit(c)   == (CHOOSE i \in 1..Base : DigitChars[i] = c) - 1

MayGrow(v, d) == v <= (U - 1) \div Base
CanGrow(v, d) == v <= (U - 1 - d) \div Base
parse_u64(chars) ==
    LET value[k \in 0..Len(chars)] ==
            IF k = 0 THEN {0}
            ELSE {(v * Base + Digit(chars[k])) % U :
                     v \in {v \in value[k - 1] : IsDigit(chars[k]) /\ CanGrow(v, Digit(chars[k]))}}
    IN IF chars = <<>> THEN {} ELSE value[Len(chars)]

\* A static_cast to a signed type of m values: the bits stay, INT64_MIN negated is itself.
Signed(n, m) == ((n + m \div 2) % m) - m \div 2

parse_i64(chars) ==
    IF chars # <<>> /\ chars[1] = "-" THEN {Signed(-n, U) : n \in parse_u64(Tail(chars))}
    ELSE {Signed(n, U) : n \in parse_u64(chars)}

need_i(chars, fallback) ==
    IF chars = <<>> THEN {fallback} ELSE {Signed(n, I) : n \in parse_i64(chars)}
need_u(chars) == IF chars = <<>> THEN {0} ELSE parse_u64(chars)

\* What operator<< writes.
Chars(n) ==
    LET digits[k \in Nat] ==
            IF k < Base THEN <<DigitChars[k + 1]>>
            ELSE Append(digits[k \div Base], DigitChars[(k % Base) + 1])
    IN IF n < 0 THEN <<"-">> \o digits[-n] ELSE digits[n]

-----------------------------------------------------------------------------
(* Lines. *)

validate_meta(m) ==
    /\ Range(m.path) \cap {"nl", "cr"} = {} /\ m.path # <<>>
    /\ m.op \in {<<"count">>, <<"copy">>}
    /\ m.workers \in 1..kMaxWorkers /\ (m.op = <<"copy">> => m.workers = 1)
    /\ m.nice \in -MaxNice..(MaxNice - 1)

Line(key, value) == <<key, "=">> \o value \o <<"nl">>
meta_to_text(m) ==
    Line("state", m.state) \o Line("op", m.op) \o Line("path", m.path)
    \o Line("workers", Chars(m.workers)) \o Line("nice", Chars(m.nice))
    \o Line("mem_mb", Chars(m.mem_mb))

\* getline
Lines(chars) ==
    FoldLeft(LAMBDA lines, c : IF c = "nl" THEN Append(lines, <<>>)
                               ELSE [lines EXCEPT ![Len(lines)] = Append(@, c)],
             <<<<>>>>, chars)

\* A line that is empty or a comment is skipped; after that, one '\r' at the end is dropped.
Skipped(line)  == line = <<>> \/ line[1] = "#"
NotStripped(line) == line
Stripped(line) == IF Last(line) = "cr" THEN Front(line) ELSE line

assign_meta_field(m, key, value) ==
    CASE key = <<"state">>   -> {[m EXCEPT !.state = value]}
      [] key = <<"op">>      -> {[m EXCEPT !.op = value]}
      [] key = <<"path">>    -> {[m EXCEPT !.path = value]}
      [] key = <<"workers">> -> {[m EXCEPT !.workers = Signed(n, I)] : n \in parse_u64(value)}
      [] key = <<"nice">>    -> {[m EXCEPT !.nice = Signed(n, I)] : n \in parse_i64(value)}
      [] key = <<"mem_mb">>  -> {[m EXCEPT !.mem_mb = n] : n \in parse_u64(value)}
      [] OTHER -> {m}     \* unknown keys are for newer programs

\* The line is cut at its first '='; one without any makes the record unreadable.
AssignLine(metas, line) ==
    LET eqs == {i \in DOMAIN line : line[i] = "="}
        eq  == CHOOSE i \in eqs : \A k \in eqs : i <= k
    IN IF eqs = {} THEN {}
       ELSE UNION {assign_meta_field(m, SubSeq(line, 1, eq - 1), SubSeq(line, eq + 1, Len(line)))
                   : m \in metas}

Fresh == [state |-> <<"submitted">>, op |-> <<>>, path |-> <<>>,
          workers |-> 1, nice |-> 0, mem_mb |-> 0]

text_to_meta(chars) ==
    {m \in FoldLeft(LAMBDA metas, line : IF Skipped(line) THEN metas
                                         ELSE AssignLine(metas, Stripped(line)),
                    {Fresh}, Lines(chars)) : m.op # <<>> /\ m.state # <<>>}

-----------------------------------------------------------------------------
(* What is typed, and where realpath may lead. *)

Numbers == SeqOf(Range(DigitChars) \cup {"-", "x"}, MaxLength)
Paths   == {<<>>, <<"p">>, <<"p", "=", "p">>, <<"#", "p">>, <<"p", "cr">>, <<"p", "cr", "p">>,
            <<"p", "nl", "p">>}
Flags   == {"workers", "nice", "mem_mb"}
Plain   == [op |-> <<"count">>, path |-> <<"p">>, workers |-> <<>>, nice |-> <<>>, mem_mb |-> <<>>]

\* Every spelling of one number, every name and path, and two numbers that depend on the name.
Commands ==
    {[Plain EXCEPT ![f] = n] : f \in Flags, n \in Numbers}
    \cup [op : {<<>>, <<"count">>, <<"copy">>}, path : Paths,
          workers : {<<>>, <<"1">>, <<"1", "0">>}, nice : {<<>>}, mem_mb : {<<>>}]

Init ==
    /\ pc = "start"
    /\ typed = Plain /\ meta = Fresh /\ saved = Fresh /\ text = <<>>
    /\ saves = 0 /\ edited = FALSE

\* cmd_submit: the flags, then validate_meta,
Parsed(c) ==
    {[Fresh EXCEPT !.op = c.op, !.path = c.path, !.workers = w, !.nice = n, !.mem_mb = m] :
        w \in need_i(c.workers, 1), n \in need_i(c.nice, 0), m \in need_u(c.mem_mb)}
Submit(c) ==
    /\ pc = "start"
    /\ typed' = c
    /\ \/ /\ \E m \in Parsed(c) : validate_meta(m) /\ meta' = m
          /\ pc' = "accepted"
       \/ /\ \A m \in Parsed(c) : ~validate_meta(m)
          /\ pc' = "refused" /\ meta' = meta
    /\ UNCHANGED <<text, saved, saves, edited>>

\* and only then real_path, which prepends the working directory and follows links.
Resolve ==
    /\ pc = "accepted"
    /\ \E path \in Paths \ {<<>>} : meta' = [meta EXCEPT !.path = path]
    /\ pc' = "save"
    /\ UNCHANGED <<typed, text, saved, saves, edited>>

Save ==
    /\ pc = "save"
    /\ text' = meta_to_text(meta) /\ saved' = meta
    /\ saves' = saves + 1 /\ edited' = FALSE
    /\ pc' = "saved"
    /\ UNCHANGED <<typed, meta>>

\* An editor that ends lines with "\r\n", a comment, a field of a newer program.
Edit ==
    /\ pc = "saved" /\ ~edited
    /\ edited' = TRUE
    /\ text' \in {FlattenSeq([i \in DOMAIN text |-> IF text[i] = "nl" THEN <<"cr", "nl">>
                                                    ELSE <<text[i]>>]),
                  <<"#", "word", "nl">> \o text,
                  text \o Line("newer", <<"x", "=", "1">>)}
    /\ UNCHANGED <<pc, typed, meta, saved, saves>>

Load ==
    /\ pc = "saved"
    /\ \/ meta' \in text_to_meta(text) /\ pc' = "read"
       \/ text_to_meta(text) = {} /\ pc' = "unreadable" /\ meta' = meta
    /\ UNCHANGED <<typed, text, saved, saves, edited>>

\* The controller checks the record again before it queues the job, and writes its state.
Enqueue ==
    /\ pc = "read" /\ saves < MaxSaves
    /\ meta' = [meta EXCEPT !.state = IF validate_meta(meta) THEN <<"queued">> ELSE <<"failed">>]
    /\ pc' = "save"
    /\ UNCHANGED <<typed, text, saved, saves, edited>>

Next == (\E c \in Commands : Submit(c)) \/ Resolve \/ Save \/ Edit \/ Load \/ Enqueue

Spec == Init /\ [][Next]_vars
-----------------------------------------------------------------------------
(* What the texts mean, by place value. *)

Negative(chars)  == chars # <<>> /\ chars[1] = "-"
Magnitude(chars) == IF Negative(chars) THEN Tail(chars) ELSE chars
IsNumber(chars)  == Magnitude(chars) # <<>> /\ \A c \in Range(Magnitude(chars)) : IsDigit(c)
NumberOf(chars)  ==
    LET ds  == Magnitude(chars)
        place[k \in 0..Len(ds)] == IF k = 0 THEN 1 ELSE Base * place[k - 1]
        sum[k \in 0..Len(ds)]   ==
            IF k = 0 THEN 0 ELSE sum[k - 1] + Digit(ds[k]) * place[Len(ds) - k]
    IN IF Negative(chars) THEN -sum[Len(ds)] ELSE sum[Len(ds)]

\* An int flag is taken modulo 2^32: exact if it fits an int.
TakenAs(chars, n, fallback) ==
    IF chars = <<>> THEN n = fallback
    ELSE IsNumber(chars) /\ ((n - NumberOf(chars)) % I) = 0

\* The numbers of an accepted job are those that were typed, through every save and load of the
\* record: unsigned ones exactly (parse_u64 refuses what does not fit and nothing else), int ones
\* modulo 2^32 (need_i narrows what parse_i64 read), and then within the limits of validate_meta.
NumbersAreThoseTyped ==
    /\ pc = "refused" /\ typed.mem_mb # <<>> =>
        ~IsNumber(typed.mem_mb) \/ Negative(typed.mem_mb) \/ NumberOf(typed.mem_mb) >= U
    /\ pc \notin {"start", "refused"} =>
        /\ TakenAs(typed.workers, meta.workers, 1) /\ meta.workers \in 1..kMaxWorkers
        /\ TakenAs(typed.nice, meta.nice, 0) /\ meta.nice \in -MaxNice..(MaxNice - 1)
        /\ IF typed.mem_mb = <<>> THEN meta.mem_mb = 0
           ELSE /\ IsNumber(typed.mem_mb) /\ ~Negative(typed.mem_mb)
                /\ meta.mem_mb = NumberOf(typed.mem_mb)

\* forge.hpp:88, "Strings are used so the file and the memory agree without a second encoding":
\* what was saved is read back the same, edits included, and passes validate_meta again. Where
\* realpath has led to a name with a newline the record cannot be read, and where it has led to
\* one with '\r', the '\r' at the end may be lost and the job may fail.
SavedIsReadBack ==
    /\ pc = "read" =>
          /\ [meta EXCEPT !.path = saved.path] = saved
          /\ meta.path = saved.path \/ meta.path \o <<"cr">> = saved.path
          /\ validate_meta(meta) \/ "cr" \in Range(saved.path)
    /\ pc = "unreadable" => "nl" \in Range(saved.path)
=============================================================================
