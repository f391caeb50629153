----------------------------- MODULE ConfigFiles -----------------------------
(***************************************************************************)
(* The two files main reads at start-up, line by line: the routes file     *)
(* (Router::load) and the services manifest (parse_services_file).  The    *)
(* two parsers have the same shape and differ in their keys.               *)
(*                                                                         *)
(* A line is known by its trimmed key and value: key "#" is a blank line   *)
(* or a comment, "[]" a section header, "[" a malformed one, "-" a line    *)
(* without '='.  Values are texts, converted as the code converts them.    *)
(***************************************************************************)
EXTENDS Integers, Sequences, FiniteSets

CONSTANTS
  Lines,       \* Lines[kind]: the lines a file may have
  MaxFile,     \* MaxFile[kind]: bound on their number
  IntMax,      \* the largest int, 2^31 - 1 in castle's build
  LongMax      \* the largest long, 2^63 - 1

MaxPort == 65535

NumberKeys == {"health_interval", "backoff_min", "backoff_max"}

(* A text where a number is expected begins with one or does not, and may    *)
(* have other characters after it.                                           *)
IsNumeral(text) ==
  text.number \in BOOLEAN /\ text.rest \in BOOLEAN /\ text.value \in Int

ASSUME ConfigAssumption ==
  \A k \in {"routes", "services"} :
    /\ MaxFile[k] \in Nat
    /\ \A l \in Lines[k] :
         /\ l.key \in {"backend", "health_tcp"} => IsNumeral(l.val.port)
         /\ l.key \in NumberKeys => IsNumeral(l.val)
         /\ l.key = "args" => l.val \in Seq(STRING)

ASSUME WidthAssumption ==
  IntMax \in Nat /\ LongMax \in Nat /\ IntMax <= LongMax /\ MaxPort < LongMax

VARIABLES
  kind,     \* which file is read
  file,     \* its lines so far
  result,   \* the sections so far; cur is the last one
  phase,    \* "reading", "failed" or "loaded"
  table     \* routes_ or out: what the caller sees

cfgVars == <<kind, file, result, phase, table>>

Keys == [routes   |-> {"host", "path", "backend"},
         services |-> {"exec", "args", "workdir", "autorestart", "health_tcp",
                       "health_interval", "backoff_min", "backoff_max"}]

NoAddress == [host |-> "", port |-> 0]

(* The member initializers of Route and ServiceConfig; path "/". *)
Default(key) ==
  CASE key = "host" -> [name |-> "", port |-> FALSE]
    [] key = "path" -> <<"/">>
    [] key \in {"backend", "health_tcp"} -> NoAddress
    [] key \in {"exec", "workdir"} -> ""
    [] key = "args" -> <<>>
    [] key = "autorestart" -> TRUE
    [] key = "health_interval" -> 5
    [] key = "backoff_min" -> 1
    [] key = "backoff_max" -> 30
-----------------------------------------------------------------------------
(* Conversions. *)

(* lower(val): a host text has a name, a spelling and perhaps a port. *)
lower(text) == [name |-> text.name, port |-> text.port]

(* Mutant: any positive number is taken as a port. *)
PortInRangeAnyPositive(p) == p > 0

PortInRange(p) == p > 0 /\ p <= MaxPort

(* strtol: the number a text begins with, kept in the range of a long; no    *)
(* number is 0, and what follows it is not looked at.                        *)
strtol(text) ==
  CASE ~text.number -> 0
    [] text.number /\ text.value > LongMax -> LongMax
    [] text.number /\ text.value < -LongMax - 1 -> -LongMax - 1
    [] OTHER -> text.value

(* static_cast<int>: modulo the width of an int. *)
ToInt(n) == ((n + IntMax + 1) % (2 * (IntMax + 1))) - (IntMax + 1)

(* split_args, one character. *)
ArgStep(s, c) ==
  CASE c = "quote" -> [s EXCEPT !.quoted = ~@, !.have = TRUE]
    [] c = "blank" /\ ~s.quoted ->
         IF s.have THEN [s EXCEPT !.out = Append(@, s.cur), !.cur = <<>>, !.have = FALSE] ELSE s
    [] OTHER -> [s EXCEPT !.cur = Append(@, c), !.have = TRUE]

(* Its loop: the state after each character. *)
ArgStates(text) ==
  LET s[i \in 0 .. Len(text)] ==
        IF i = 0 THEN [out |-> <<>>, cur |-> <<>>, quoted |-> FALSE, have |-> FALSE]
        ELSE ArgStep(s[i - 1], text[i])
  IN s

split_args(text) ==
  LET s == ArgStates(text)[Len(text)] IN IF s.have THEN Append(s.out, s.cur) ELSE s.out

(* Is the value accepted, and what is then stored?  An address is split at   *)
(* its last colon, and its port cast to 16 bits.                             *)
Valid(key, text) ==
  CASE key \in {"backend", "health_tcp"} -> text.colon /\ PortInRange(strtol(text.port))
    [] key = "autorestart" -> text \in {"on", "off"}
    [] OTHER -> TRUE

Convert(key, text) ==
  CASE key = "host" -> lower(text)
    [] key \in {"backend", "health_tcp"} ->
         [host |-> text.host, port |-> strtol(text.port) % (MaxPort + 1)]
    [] key = "args" -> split_args(text)
    [] key = "autorestart" -> text = "on"
    [] key \in NumberKeys -> ToInt(strtol(text))
    [] OTHER -> text
-----------------------------------------------------------------------------
CInit ==
  /\ kind \in {"routes", "services"}
  /\ file = <<>> /\ result = <<>> /\ phase = "reading" /\ table = <<>>

(* The file cannot be opened. *)
CannotOpen ==
  /\ phase = "reading" /\ file = <<>>
  /\ phase' = "failed"
  /\ UNCHANGED <<kind, file, result, table>>

NextLine(l) ==
  /\ phase = "reading" /\ Len(file) < MaxFile[kind]
  /\ file' = Append(file, l)
  /\ UNCHANGED <<kind, table>>

(* Blank lines and comments. *)
SkipLine(l) == NextLine(l) /\ l.key = "#" /\ UNCHANGED <<result, phase>>

(* A header starts a section; a name may be used twice. *)
Section(l) ==
  /\ NextLine(l) /\ l.key = "[]"
  /\ result' = Append(result, [key \in Keys[kind] |-> Default(key)])
  /\ UNCHANGED phase

(* key = value into the current section; an empty path keeps what it had. *)
Assign(l) ==
  /\ NextLine(l) /\ l.key \in Keys[kind] /\ result # <<>> /\ Valid(l.key, l.val)
  /\ result' = IF l.key = "path" /\ l.val = <<>> THEN result
               ELSE [result EXCEPT ![Len(result)][l.key] = Convert(l.key, l.val)]
  /\ UNCHANGED phase

(* Every other line fails the load. *)
BadLine(l) ==
  /\ NextLine(l) /\ l.key \notin {"#", "[]"}
  /\ l.key \in Keys[kind] => result = <<>> \/ ~Valid(l.key, l.val)
  /\ phase' = "failed"
  /\ UNCHANGED result

Complete(section) ==
  IF kind = "routes" THEN section.backend.host # "" /\ section.backend.port # 0
                     ELSE section.exec = "absolute"

AllComplete == \A i \in DOMAIN result : Complete(result[i])

(* The end: a section without backend or exec fails the load, else the       *)
(* result is moved out.                                                      *)
EndOfFile ==
  /\ phase = "reading"
  /\ IF AllComplete THEN phase' = "loaded" /\ table' = result
                    ELSE phase' = "failed" /\ UNCHANGED table
  /\ UNCHANGED <<kind, file, result>>

CNext ==
  \/ \E l \in Lines[kind] : SkipLine(l) \/ Section(l) \/ Assign(l) \/ BadLine(l)
  \/ CannotOpen \/ EndOfFile

CSpec == CInit /\ [][CNext]_cfgVars
-----------------------------------------------------------------------------
(* What a file means, read as a whole: section k has, for each key, the last *)
(* value given between its header and the next one, else the default.        *)
CountTo(S, i) == Cardinality({j \in S : j <= i})

Headers == {i \in DOMAIN file : file[i].key = "[]"}

Given(k, key) ==
  {i \in DOMAIN file : /\ file[i].key = key /\ CountTo(Headers, i) = k
                       /\ key = "path" => file[i].val # <<>>}

(* The arguments a text spells: the maximal runs without a blank outside     *)
(* quotes, each without its quotes.                                          *)
Quotes(text) == {i \in DOMAIN text : text[i] = "quote"}
Blanks(text) == {i \in DOMAIN text : text[i] = "blank" /\ CountTo(Quotes(text), i) % 2 = 0}
Starts(text) == {i \in DOMAIN text : i \notin Blanks(text) /\ (i = 1 \/ i - 1 \in Blanks(text))}
CharsOf(text, n) ==
  {i \in DOMAIN text : i \notin Blanks(text) \cup Quotes(text) /\ CountTo(Starts(text), i) = n}

Spells(text, args) ==
  /\ Len(args) = CountTo(Starts(text), Len(text))
  /\ \A n \in DOMAIN args :
       /\ Len(args[n]) = CountTo(CharsOf(text, n), Len(text))
       /\ \A i \in CharsOf(text, n) : args[n][CountTo(CharsOf(text, n), i)] = text[i]

(* A number and nothing else, that an int can hold. *)
WritesNumber(text) == text.number /\ ~text.rest
FitsInt(n) == -IntMax - 1 <= n /\ n <= IntMax

(* The value a text stands for, key by key.  A text that is no number, or    *)
(* too large a one, stands for none, and the code loads it all the same.     *)
Means(key, text, value) ==
  CASE key = "host" -> value.name = text.name /\ value.port = text.port
    [] key \in {"backend", "health_tcp"} ->
         value.host = text.host /\ (WritesNumber(text.port) => value.port = text.port.value)
    [] key = "args" -> Spells(text, value)
    [] key = "autorestart" -> value <=> text = "on"
    [] key \in NumberKeys ->
         WritesNumber(text) /\ FitsInt(text.value) => value = text.value
    [] OTHER -> value = text

AsWritten(sections) ==
  /\ Len(sections) = CountTo(Headers, Len(file))
  /\ \A k \in DOMAIN sections, key \in Keys[kind] :
       IF Given(k, key) = {} THEN sections[k][key] = Default(key)
       ELSE \E i \in Given(k, key) :
              (\A j \in Given(k, key) : j <= i) /\ Means(key, file[i].val, sections[k][key])

(* What is loaded is what the file says, section by section and key by key:  *)
(* no value lands in another section or is lost to a default, no number that *)
(* an int holds and no port is changed by strtol or the casts, whatever is   *)
(* accepted, and the arguments are split where the text says; and every      *)
(* section has, whatever the order of its lines, an address to connect to    *)
(* or a program.                                                             *)
LoadedAsWritten ==
  phase = "loaded" =>
    /\ AsWritten(table)
    /\ \A i \in DOMAIN table :
         IF kind = "routes"
         THEN /\ table[i].backend.host # ""
              /\ 0 < table[i].backend.port /\ table[i].backend.port <= MaxPort
         ELSE table[i].exec = "absolute"
=============================================================================
