------------------------------- MODULE Schedules -------------------------------
(***************************************************************************)
(* The files and lines that make another program start anago: a systemd    *)
(* service (systemd.rs), a launchd property list (launchd.rs) and a        *)
(* crontab line (timer.rs).  A path is written the way its reader reads,   *)
(* or refused.                                                             *)
(*                                                                         *)
(* A text is a sequence of characters, and a word that holds nothing the   *)
(* readers care about is one character.  The readers are modelled from     *)
(* their manuals: systemd.syntax(7), systemd.exec(5), crontab(5), sh(1)    *)
(* and XML 1.0.  What may be refused is a set, {} for an Err.              *)
(***************************************************************************)
EXTENDS Integers, Sequences, SequencesExt, FiniteSetsExt

Control == {"\n", "\r", "\t", "bell"}
NotText == "bytes"                \* a byte that is not UTF-8
Blank == {" ", "\n", "\r", "\t"}
Has(text, chars) == \E i \in DOMAIN text : text[i] \in chars

\* replace, of one character by some.
Replace(text, c, by) == FoldLeft(LAMBDA out, x : out \o (IF x = c THEN by ELSE <<x>>), <<>>, text)

Quoted(text, quote) == <<quote>> \o text \o <<quote>>

-----------------------------------------------------------------------------
(* systemd.                                                                *)

\* Mutation: a percent sign is left for systemd to expand.
EscapeKeepingPercent(path) ==
  IF Has(path, {NotText} \cup Control) THEN {}
  ELSE IF ~Has(path, Blank \cup {"\"", "\\"}) THEN {path}
       ELSE {Quoted(Replace(Replace(path, "\\", <<"\\", "\\">>), "\"", <<"\\", "\"">>), "\"")}

\* escape.
Escape(path) ==
  IF Has(path, {NotText} \cup Control) THEN {}
  ELSE LET text == Replace(path, "%", <<"%", "%">>)
       IN IF ~Has(text, Blank \cup {"\"", "\\"}) THEN {text}
          ELSE {Quoted(Replace(Replace(text, "\\", <<"\\", "\\">>), "\"", <<"\\", "\"">>), "\"")}

\* bind: no colon in a list of binds.
Bind(path) == {text \in Escape(path) : ~Has(text, {":"})}

Slashes(path) == {i \in DOMAIN path : path[i] = "/"}
Parent(path) == IF Slashes(path) \subseteq {1} THEN SubSeq(path, 1, Cardinality(Slashes(path)))
                 ELSE SubSeq(path, 1, Max(Slashes(path)) - 1)

\* writable_dir: an absolute directory below the root.
WritableDir(file) ==
  {dir \in {Parent(file)} : dir # <<>> /\ dir[1] = "/" /\ dir # <<"/">>}

\* sync_service_text: its lines that name paths.  unit_text writes the same kinds
\* of line for a hub.
ServiceText(exec, device, config) ==
  {[start |-> <<":">> \o e \o <<" ", "sync", " ", "--quiet", " ", "--config", " ">> \o d,
    binds |-> b, writes |-> w, reads |-> r] :
   e \in Bind(exec), d \in Escape(device), r \in Bind(exec),
   b \in UNION {Bind(dir) : dir \in WritableDir(device)},
   w \in UNION {Escape(dir) : dir \in WritableDir(config)}}

\* systemd reads a setting: a quote at the start of a word holds blanks, a
\* backslash takes the next character as it is, a percent sign and a character
\* after it are replaced.
SystemdStep(r, c) ==
  CASE r.escaped                       -> [r EXCEPT !.word = Append(@, c), !.escaped = FALSE]
    [] ~r.escaped /\ c = "\\"          -> [r EXCEPT !.escaped = TRUE, !.open = TRUE]
    [] ~r.escaped /\ c = "\"" /\ r.quoted  -> [r EXCEPT !.quoted = FALSE]
    [] ~r.escaped /\ c = "\"" /\ ~r.open  -> [r EXCEPT !.quoted = TRUE, !.open = TRUE]
    [] ~r.escaped /\ c \in Blank /\ ~r.quoted ->
         [r EXCEPT !.words = IF r.open THEN Append(@, r.word) ELSE @, !.word = <<>>, !.open = FALSE]
    [] OTHER                           -> [r EXCEPT !.word = Append(@, c), !.open = TRUE]

Reading == [words |-> <<>>, word |-> <<>>, open |-> FALSE, quoted |-> FALSE, escaped |-> FALSE,
            percent |-> FALSE]
WordsOf(r) == IF r.open THEN Append(r.words, r.word) ELSE r.words

Specifiers(word) ==
  LET read == FoldLeft(LAMBDA s, c :
                IF s.percent THEN [text |-> Append(s.text, IF c = "%" THEN "%" ELSE "expanded"),
                                   percent |-> FALSE]
                ELSE IF c = "%" THEN [s EXCEPT !.percent = TRUE]
                ELSE [s EXCEPT !.text = Append(@, c)],
                [text |-> <<>>, percent |-> FALSE], word)
  IN read.text

SystemdWords(text) ==
  LET words == WordsOf(FoldLeft(SystemdStep, Reading, text))
  IN [i \in DOMAIN words |-> Specifiers(words[i])]

\* A command line expands variables, unless a colon comes first.
CommandWords(text) ==
  IF text[1] = ":" THEN SystemdWords(Tail(text))
  ELSE LET words == SystemdWords(text)
       IN [i \in DOMAIN words |-> Replace(words[i], "$", <<"expanded">>)]

\* A list of binds takes a colon apart, quoted or not.
BindWords(text) ==
  LET words == SystemdWords(text)
  IN [i \in DOMAIN words |-> Replace(words[i], ":", <<"destination">>)]

\* A unit that is written starts the binary that was named, on the device file
\* that was named; what its sandbox opens is the directory of that file and of
\* the WireGuard config, and never the whole file system.
UnitTrue(exec, device, config) ==
  \A unit \in ServiceText(exec, device, config) :
    /\ CommandWords(unit.start) = <<exec, <<"sync">>, <<"--quiet">>, <<"--config">>, device>>
    /\ BindWords(unit.binds) = <<Parent(CommandWords(unit.start)[5])>>
    /\ SystemdWords(unit.writes) = <<Parent(config)>>
    /\ BindWords(unit.reads) = <<exec>>
    /\ ~Has(unit.start \o unit.binds \o unit.writes \o unit.reads, {"\n"})
    /\ <<"/">> \notin {Parent(device), Parent(config)}

-----------------------------------------------------------------------------
(* launchd.                                                                *)

\* Mutation: the blanks XML allows are written as they are.
XmlStringPlain(path) ==
  IF Has(path, {NotText, "bell"}) THEN {}
  ELSE {Replace(Replace(Replace(path, "&", <<"&", "amp", ";">>), "<", <<"&", "lt", ";">>),
                ">", <<"&", "gt", ";">>)}

\* string.
Reference(c) ==
  CASE c = "&"  -> <<"&", "amp", ";">>
    [] c = "<"  -> <<"&", "lt", ";">>
    [] c = ">"  -> <<"&", "gt", ";">>
    [] c = "\t" -> <<"&", "#9", ";">>
    [] c = "\n" -> <<"&", "#10", ";">>
    [] c = "\r" -> <<"&", "#13", ";">>
    [] OTHER    -> <<c>>
XmlString(path) ==
  IF Has(path, {NotText, "bell"}) THEN {}
  ELSE {FoldLeft(LAMBDA out, c : out \o Reference(c), <<>>, path)}

\* sync_plist and server_plist: one element for each argument.
SyncPlist(exec, device) ==
  {[arguments |-> <<e, <<"sync">>, <<"--quiet">>, <<"--config">>, d>>] :
   e \in XmlString(exec), d \in XmlString(device)}

\* XML: a line end is one newline, before anything else; then references.
LineEnds(text) ==
  FoldLeft(LAMBDA out, i :
             IF text[i] = "\r" THEN Append(out, "\n")
             ELSE IF text[i] = "\n" /\ i > 1 /\ text[i - 1] = "\r" THEN out
             ELSE Append(out, text[i]),
           <<>>, [i \in DOMAIN text |-> i])
Named(name) ==
  CASE name = "amp" -> "&" [] name = "lt" -> "<" [] name = "gt" -> ">"
    [] name = "#9" -> "\t" [] name = "#10" -> "\n" [] name = "#13" -> "\r" [] OTHER -> "error"
XmlText(text) ==
  LET read == FoldLeft(LAMBDA r, c :
                CASE r.in = "name" -> [out |-> Append(r.out, Named(c)), in |-> "semicolon"]
                  [] r.in = "semicolon" -> [r EXCEPT !.in = IF c = ";" THEN "text" ELSE "error"]
                  [] r.in = "text" /\ c = "&" -> [r EXCEPT !.in = "name"]
                  [] r.in = "text" /\ c = "<" -> [r EXCEPT !.in = "error"]
                  [] OTHER -> [r EXCEPT !.out = Append(@, c)],
                [out |-> <<>>, in |-> "text"], LineEnds(text))
  IN IF read.in = "text" THEN {read.out} ELSE {}

\* A property list names what was given, to the character.
PlistTrue(exec, device) ==
  \A plist \in SyncPlist(exec, device) :
    [i \in DOMAIN plist.arguments |-> XmlText(plist.arguments[i])]
      = <<{exec}, {<<"sync">>}, {<<"--quiet">>}, {<<"--config">>}, {device}>>

-----------------------------------------------------------------------------
(* cron.                                                                   *)

Plain == {"/", "a", "b", ":", "="}

\* Mutation: a backslash in a path is quoted for the shell and left to cron.
ShellBackslash(path) ==
  IF Has(path, {NotText} \cup Control) THEN {}
  ELSE IF \A i \in DOMAIN path : path[i] \in Plain THEN {path}
       ELSE {Quoted(Replace(path, "'", <<"'", "\\", "'", "'">>), "'")}

\* shell.
Shell(path) ==
  IF Has(path, {NotText, "\\"} \cup Control) THEN {}
  ELSE IF \A i \in DOMAIN path : path[i] \in Plain THEN {path}
       ELSE {Quoted(Replace(path, "'", <<"'", "\\", "'", "'">>), "'")}

\* crontab_command.
CrontabCommand(exec, device) ==
  {Replace(e \o <<" ", "sync", " ", "--quiet", " ", "--config", " ">> \o d, "%", <<"\\", "%">>) :
   e \in Shell(exec), d \in Shell(device)}

\* cron reads the line: a percent sign ends the command unless a backslash comes
\* before it, and the backslash of such a pair goes.
CronCommand(line) ==
  LET read == FoldLeft(LAMBDA r, c :
                IF r.over THEN r
                ELSE IF r.escaped
                THEN [r EXCEPT !.escaped = FALSE,
                               !.out = IF c = "%" THEN Append(Front(@), c) ELSE Append(@, c)]
                ELSE IF c = "%" THEN [r EXCEPT !.over = TRUE]
                ELSE [r EXCEPT !.out = Append(@, c), !.escaped = (c = "\\")],
                [out |-> <<>>, escaped |-> FALSE, over |-> FALSE], line)
  IN read.out

\* The shell reads what is left.
ShellStep(r, c) ==
  CASE r.escaped -> [r EXCEPT !.word = Append(@, c), !.escaped = FALSE]
    [] ~r.escaped /\ r.quoted -> IF c = "'" THEN [r EXCEPT !.quoted = FALSE]
                                 ELSE [r EXCEPT !.word = Append(@, c)]
    [] ~r.escaped /\ ~r.quoted /\ c = "'"  -> [r EXCEPT !.quoted = TRUE, !.open = TRUE]
    [] ~r.escaped /\ ~r.quoted /\ c = "\\" -> [r EXCEPT !.escaped = TRUE, !.open = TRUE]
    [] ~r.escaped /\ ~r.quoted /\ c \in Blank ->
         [r EXCEPT !.words = IF r.open THEN Append(@, r.word) ELSE @, !.word = <<>>, !.open = FALSE]
    [] OTHER -> [r EXCEPT !.open = TRUE,
                          !.word = Append(@, IF c \in {"$", "&", "<", ">", "\""} THEN "expanded" ELSE c)]
ShellWords(text) == WordsOf(FoldLeft(ShellStep, Reading, text))

\* What cron hands to the shell is the binary and the device file that were named.
CronTrue(exec, device) ==
  \A line \in CrontabCommand(exec, device) :
    ShellWords(CronCommand(line)) = <<exec, <<"sync">>, <<"--quiet">>, <<"--config">>, device>>

-----------------------------------------------------------------------------
(* Periods.                                                                *)

Every == [step |-> 1]
Step(n) == [step |-> n]
At(n) == [at |-> n]

\* Mutation: any number of minutes below an hour will do.
CronScheduleUneven(seconds) ==
  IF seconds = 0 \/ seconds % 60 # 0 \/ seconds >= 3600 THEN {}
  ELSE {[minute |-> Step(seconds \div 60), hour |-> Every]}

\* cron_schedule.
CronSchedule(seconds) ==
  LET minutes == seconds \div 60
      hours   == minutes \div 60
  IN IF seconds = 0 \/ seconds % 60 # 0 THEN {}
     ELSE IF minutes < 60
     THEN IF 60 % minutes = 0 THEN {[minute |-> Step(minutes), hour |-> Every]} ELSE {}
     ELSE IF minutes % 60 # 0 \/ hours > 24 \/ 24 % hours # 0 THEN {}
     ELSE {[minute |-> At(0), hour |-> IF hours = 24 THEN At(0) ELSE Step(hours)]}

Matches(field, value) ==
  IF "at" \in DOMAIN field THEN value = field.at ELSE value % field.step = 0

\* Minutes of a day at which cron starts the command.
Fires(schedule) ==
  {60 * h + m : h \in {k \in 0 .. 23 : Matches(schedule.hour, k)},
                m \in {k \in 0 .. 59 : Matches(schedule.minute, k)}}

\* From any run the next one is a whole number of seconds later, this many.
Even(schedule, seconds) ==
  LET fires == Fires(schedule) IN
  /\ seconds % 60 = 0
  /\ Cardinality(fires) * seconds = 86400
  /\ \A t \in fires : (t + seconds \div 60) % 1440 \in fires

\* span and start_interval: what systemd and launchd are told.
Span(seconds) ==
  IF seconds = 0 THEN <<0, "s">>
  ELSE IF seconds % 3600 = 0 THEN <<seconds \div 3600, "h">>
  ELSE IF seconds % 60 = 0 THEN <<seconds \div 60, "min">>
  ELSE <<seconds, "s">>
Means(span) == span[1] * CASE span[2] = "s" -> 1 [] span[2] = "min" -> 60 [] span[2] = "h" -> 3600

\* systemd and launchd read the period that was asked for.  A crontab line repeats
\* on it through every hour and midnight, and is refused only when cron has none
\* that does.
PeriodTrue(seconds) ==
  /\ Means(Span(seconds)) = seconds
  /\ \A schedule \in CronSchedule(seconds) : Even(schedule, seconds)
  /\ CronSchedule(seconds) = {} =>
       \A minute \in {At(0)} \cup {Step(n) : n \in 1 .. 59},
          hour \in {At(0)} \cup {Step(n) : n \in 1 .. 23} :
            ~Even([minute |-> minute, hour |-> hour], seconds)
=============================================================================
