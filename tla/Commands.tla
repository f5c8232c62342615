------------------------------- MODULE Commands -------------------------------
(***************************************************************************)
(* How a command line becomes a command: the flag parser of args.rs, the   *)
(* routing and the combination rules of cli.rs, the certificate plan of    *)
(* acme.rs and the choice of a Cloudflare token of cfapi.rs, with what     *)
(* main.rs then does with the command.                                     *)
(*                                                                         *)
(* An argument is a token, not characters: "--" (end), a long flag with or *)
(* without "=value", a short flag, or a word ("-" is a word).  A value is  *)
(* a name for a text, and the sets below say which texts pass which check. *)
(* Everything is a function of the arguments: nothing here has state.      *)
(***************************************************************************)
EXTENDS Integers, Sequences, SequencesExt, FiniteSetsExt, TLC

CONSTANT MaxCount       \* u64::MAX, what a number of seconds saturates at

MaxCountAssumption == MaxCount \in Nat /\ MaxCount > 24 * 60 * 60

Absent == "absent"      \* Option::None, of a flag's value or of an error

Word(text) == [form |-> "word", name |-> text, value |-> Absent]
Long(name) == [form |-> "flag", name |-> name, value |-> Absent]
Inline(name, text) == [form |-> "flag", name |-> name, value |-> text]
Short(name) == [form |-> "short", name |-> name, value |-> Absent]
End == [form |-> "end", name |-> "", value |-> Absent]

\* An argument as it was typed, which is what it is after "--".
Text(arg) ==
  (CASE arg.form = "word" -> "" [] arg.form = "short" -> "-" [] OTHER -> "--") \o arg.name
  \o (IF arg.value = Absent THEN "" ELSE "=" \o arg.value)

-----------------------------------------------------------------------------
(* ParsedArgs::parse, against the flags a command declares.                *)

Nothing == [positionals |-> <<>>, flags |-> <<>>, error |-> Absent]

Given(parsed, name) == \E i \in DOMAIN parsed.flags : parsed.flags[i][1] = name

\* ParsedArgs::value.
Value(parsed, name) ==
  IF Given(parsed, name)
  THEN parsed.flags[CHOOSE i \in DOMAIN parsed.flags : parsed.flags[i][1] = name][2]
  ELSE Absent

Fails(parsed, why) == [parsed EXCEPT !.error = why]

\* is_flag_like, turned round: the next token can be a value.
CanBeValue(argv) == argv # <<>> /\ argv[1].form = "word"

\* Mutation: of a flag given twice the last one wins.
KeepLast(parsed, name, value) ==
  [parsed EXCEPT !.flags = Append(SelectSeq(@, LAMBDA f : f[1] # name), <<name, value>>)]

\* One flag and its value recorded, unless it was given before.
Keep(parsed, name, value) ==
  IF Given(parsed, name) THEN Fails(parsed, "duplicate")
  ELSE [parsed EXCEPT !.flags = Append(@, <<name, value>>)]

\* What one flag token makes of the arguments after it: the parse so far, and
\* how many of them it took.
Flag(arg, rest, spec, parsed) ==
  CASE arg.form = "short" \/ arg.name \notin spec.booleans \cup spec.values ->
         <<Fails(parsed, "unknown"), 0>>
    [] arg.form = "flag" /\ arg.name \in spec.booleans ->
         <<IF arg.value # Absent THEN Fails(parsed, "unexpected")
           ELSE Keep(parsed, arg.name, Absent), 0>>
    [] arg.form = "flag" /\ arg.name \in spec.values /\ arg.value # Absent ->
         <<IF arg.value = "" THEN Fails(parsed, "empty")
           ELSE Keep(parsed, arg.name, arg.value), 0>>
    [] OTHER ->
         IF ~CanBeValue(rest) THEN <<Fails(parsed, "missing"), 0>>
         ELSE <<IF rest[1].name = "" THEN Fails(parsed, "empty")
                ELSE Keep(parsed, arg.name, rest[1].name), 1>>

RECURSIVE Parse(_, _, _, _)
Parse(argv, spec, parsed, restPositional) ==
  IF argv = <<>> \/ parsed.error # Absent THEN parsed
  ELSE LET arg  == Head(argv)
           rest == Tail(argv)
           read == Flag(arg, rest, spec, parsed)
       IN IF restPositional \/ arg.form = "word"
          THEN Parse(rest, spec, [parsed EXCEPT !.positionals = Append(@, Text(arg))],
                     restPositional)
          ELSE IF arg.form = "end" THEN Parse(rest, spec, parsed, TRUE)
          ELSE Parse(SubSeq(rest, 1 + read[2], Len(rest)), spec, read[1], FALSE)

ParsedArgs(argv, booleans, values) ==
  Parse(argv, [booleans |-> booleans, values |-> values], Nothing, FALSE)

-----------------------------------------------------------------------------
(* Values: which texts pass the check of their flag.                       *)

GoodDomains == {"net.example.com", "hub.example.com"}  \* not a URL, path, host:port, "localhost"
GoodPorts == {"8443", "9443"}                        \* not "0", "65536", "http"
GoodNames == {"phone", "laptop"}                     \* DeviceName::parse accepts
GoodCodes == {"7QX4-M2KD", "AAAA-BBBB"}              \* JoinCode::parse accepts
GoodTokens == {"cf1", "cf2"}                          \* no whitespace inside
GoodSubnets == {"10.9.0.0/24", "10.8.0.0/24"}
Challenges == {"http-01", "dns-01"}
Absolute == {"/etc/d.json", "/root/d.json"}
\* Intervals by their spelling: the digits' number and the unit's seconds.
Intervals == ("10m" :> <<10, 60>>) @@ ("2h" :> <<2, 3600>>) @@ ("30s" :> <<30, 1>>)

Refuse(why) == [command |-> "refused", why |-> why]

\* The first of several errors, in the order the code meets them; else `it`.
FirstOf(errors, it) ==
  LET found == SelectSeq(errors, LAMBDA e : e # Absent)
  IN IF found # <<>> THEN Refuse(found[1]) ELSE it

If(condition, why) == IF condition THEN why ELSE Absent

Ill(parsed, name, good) ==
  If(Given(parsed, name) /\ Value(parsed, name) \notin good, "value of --" \o name)

Default(parsed, name, value) == IF Given(parsed, name) THEN Value(parsed, name) ELSE value

\* Mutation: the product wraps.
TimesWrapped(count, seconds) == (count * seconds) % (MaxCount + 1)

\* u64::saturating_mul.
SaturatingTimes(count, seconds) ==
  IF count * seconds > MaxCount THEN MaxCount ELSE count * seconds

\* interval: at least a minute, at most a day.  0 stands for the refusal.
Interval(count, seconds) ==
  LET interval == SaturatingTimes(count, seconds)
  IN IF interval < 60 \/ interval > 24 * 60 * 60 THEN 0 ELSE interval

\* The interval of an installation: a default of five minutes.
IntervalOf(parsed) ==
  LET text == Value(parsed, "interval") IN
  IF ~Given(parsed, "interval") THEN 5 * 60
  ELSE IF text \notin DOMAIN Intervals THEN 0
  ELSE Interval(Intervals[text][1], Intervals[text][2])

-----------------------------------------------------------------------------
(* The token and the certificate plan.                                     *)

\* cfapi::choose: the file, then the flag, then the environment.
Choose(file, flag, env) ==
  IF file # Absent /\ flag # Absent THEN "both"
  ELSE IF file # Absent THEN "file"
  ELSE IF flag # Absent THEN "flag"
  ELSE IF env \notin {Absent, ""} THEN "env"
  ELSE "none"

\* acme::acme_flags.
AcmeFlags(parsed) ==
  {f \in {"acme-email", "acme-staging", "acme-challenge"} : Given(parsed, f)}

\* Mutation: ACME flags beside a certificate are dropped.
PlanIgnoringFlags(parsed, token) ==
  IF Given(parsed, "tls-cert") /\ Given(parsed, "tls-key")
  THEN [command |-> "manual", cert |-> Value(parsed, "tls-cert"), key |-> Value(parsed, "tls-key")]
  ELSE Refuse("no certificate")

\* acme::plan.
Plan(parsed, token) ==
  LET cert == Given(parsed, "tls-cert")
      key  == Given(parsed, "tls-key")
  IN CASE cert /\ key ->
            FirstOf(<<If(AcmeFlags(parsed) # {}, "acme flags with a certificate")>>,
              [command |-> "manual",
               cert |-> Value(parsed, "tls-cert"), key |-> Value(parsed, "tls-key")])
       [] cert # key -> Refuse("half a pair")
       [] OTHER ->
            FirstOf(<<If(~Given(parsed, "acme-email"), "no contact"),
                      If(Value(parsed, "acme-challenge") = "dns-01" /\ token = "none",
                         "dns-01 without a token")>>,
              [command   |-> "acme",
               directory |-> IF Given(parsed, "acme-staging") THEN "staging" ELSE "production",
               challenge |-> Default(parsed, "acme-challenge",
                                     IF token = "none" THEN "http-01" ELSE "dns-01"),
               contact   |-> Value(parsed, "acme-email")])

-----------------------------------------------------------------------------
(* The commands: the flags each declares, and what it makes of a parse.    *)

\* What every command does first.
Checked(parsed, errors, it) ==
  IF parsed.error # Absent THEN Refuse(parsed.error) ELSE FirstOf(errors, it)

NoWords(parsed) == If(parsed.positionals # <<>>, "too many arguments")

Source(parsed) == Choose(Value(parsed, "cf-token-file"), Value(parsed, "cf-token"), Absent)

TokenErrors(parsed) ==
  <<Ill(parsed, "acme-challenge", Challenges), Ill(parsed, "cf-token", GoodTokens),
    If(Source(parsed) = "both", "both token flags")>>

InitValues == {"domain", "tls-cert", "tls-key", "subnet", "port", "api-port", "acme-email",
               "acme-challenge", "cf-token", "cf-token-file"}
InitArgs(argv) == ParsedArgs(argv, {"no-systemd", "acme-staging"}, InitValues)

\* server_init and check_combination: a plan that only lacks a token is left
\* for init, which reads the environment.
ServerInit(parsed) ==
  LET plan    == Plan(parsed, Source(parsed))
      refused == plan.command = "refused" /\ plan.why # "dns-01 without a token"
  IN Checked(parsed,
       <<NoWords(parsed), Ill(parsed, "subnet", GoodSubnets),
         If(~Given(parsed, "domain"), "required"), Ill(parsed, "domain", GoodDomains)>>
       \o SubSeq(TokenErrors(parsed), 1, 2)
       \o <<Ill(parsed, "port", GoodPorts), Ill(parsed, "api-port", GoodPorts),
            TokenErrors(parsed)[3], IF refused THEN plan.why ELSE Absent>>,
       [command |-> "init", flags |-> ToSet(parsed.flags)])

\* Mutation: --acme-email beside --dns goes unnoticed.
MixedButEmail(parsed) ==
  \E f \in {"force", "acme-staging", "acme-production", "acme-challenge"} : Given(parsed, f)

\* What may not stand beside --dns.
Mixed(parsed) ==
  \E f \in {"force", "acme-staging", "acme-production", "acme-email", "acme-challenge"} :
     Given(parsed, f)

RenewArgs(argv) ==
  ParsedArgs(argv, {"force", "dns", "acme-staging", "acme-production"},
             {"acme-email", "acme-challenge", "cf-token", "cf-token-file"})

ServerRenew(parsed) ==
  Checked(parsed,
    <<NoWords(parsed),
      If(Given(parsed, "acme-staging") /\ Given(parsed, "acme-production"), "contradiction")>>
    \o TokenErrors(parsed)
    \o <<If(Given(parsed, "dns") /\ Mixed(parsed), "contradiction")>>,
    [command |-> "renew", flags |-> ToSet(parsed.flags)])

\* export and out: qr goes to the terminal, --out belongs to conf.
ExportErrors(parsed) ==
  LET kind == Value(parsed, "export")
      out  == Given(parsed, "out")
  IN <<If(out /\ ~Given(parsed, "export"), "orphan"),
       If(kind = "qr" /\ out, "contradiction"),
       Ill(parsed, "export", {"qr", "conf"})>>

JoinArgs(argv) == ParsedArgs(argv, {}, {"name", "api-port", "export", "out"})

Join(parsed) ==
  LET words == parsed.positionals
  IN Checked(parsed,
       ExportErrors(parsed) \o
       <<If(Len(words) < 2, "missing argument"), If(Len(words) > 2, "too many arguments"),
         Ill(parsed, "name", GoodNames),
         If(Given(parsed, "export") /\ ~Given(parsed, "name"), "needs --name"),
         Ill(parsed, "api-port", GoodPorts),
         If(Len(words) = 2 /\ words[1] \notin GoodDomains, "bad domain"),
         If(Len(words) = 2 /\ words[2] \notin GoodCodes, "bad code")>>,
       [command |-> "join", words |-> words, flags |-> ToSet(parsed.flags)])

\* Mutation: --quiet beside a timer is accepted.
TimerErrorsLoud(parsed) ==
  LET install   == Given(parsed, "install-timer")
      uninstall == Given(parsed, "uninstall-timer")
  IN <<If(install /\ uninstall, "contradiction"),
       If(install /\ IntervalOf(parsed) = 0, "value of --interval"),
       If(Given(parsed, "interval") /\ ~install, "orphan"),
       If(uninstall /\ Given(parsed, "config"), "orphan")>>

\* What belongs to a run, to an installation and to neither.
TimerErrors(parsed) ==
  LET install   == Given(parsed, "install-timer")
      uninstall == Given(parsed, "uninstall-timer")
  IN <<If(install /\ uninstall, "contradiction"),
       If(install /\ IntervalOf(parsed) = 0, "value of --interval"),
       If(Given(parsed, "interval") /\ ~install, "orphan"),
       If((install \/ uninstall) /\ Given(parsed, "quiet"), "orphan"),
       If(uninstall /\ Given(parsed, "config"), "orphan")>>

SyncArgs(argv) ==
  ParsedArgs(argv, {"quiet", "install-timer", "uninstall-timer"}, {"config", "interval"})

Sync(parsed) ==
  Checked(parsed,
    <<NoWords(parsed)>> \o TimerErrors(parsed) \o <<Ill(parsed, "config", Absolute)>>,
    [command |-> "sync", flags |-> ToSet(parsed.flags)])

Rm(parsed) ==
  LET words == parsed.positionals
  IN Checked(parsed,
       <<If(words = <<>>, "missing argument"), If(Len(words) > 1, "too many arguments"),
         If(Len(words) = 1 /\ words[1] \notin GoodNames, "bad name")>>,
       [command |-> "rm", words |-> words])

NoArgs(name, parsed) == Checked(parsed, <<NoWords(parsed)>>, [command |-> name])

ServerRun(parsed) ==
  Checked(parsed, <<NoWords(parsed)>>, [command |-> "run", flags |-> ToSet(parsed.flags)])

Server(argv) ==
  IF argv = <<>> THEN Refuse("missing subcommand")
  ELSE CASE argv[1] = Word("init")   -> ServerInit(InitArgs(Tail(argv)))
         [] argv[1] = Word("renew")  -> ServerRenew(RenewArgs(Tail(argv)))
         [] argv[1] = Word("run")    -> ServerRun(ParsedArgs(Tail(argv), {"service"}, {}))
         [] argv[1] = Word("status") -> Refuse("not yet")
         [] OTHER                    -> Refuse("unknown command")

\* Mutation: the whole line is searched for --help.
WantsHelpAnywhere(argv) ==
  argv = <<>> \/ \E i \in DOMAIN argv : argv[i] \in {Long("help"), Short("h")}

\* help_or_version looks no further than "--".
WantsHelp(argv) ==
  \/ argv = <<>>
  \/ \E i \in DOMAIN argv :
       /\ argv[i] \in {Long("help"), Short("h")}
       /\ \A j \in 1 .. i : argv[j] # End

WantsVersion(argv) ==
  \E i \in DOMAIN argv :
    /\ argv[i] \in {Long("version"), Short("V")}
    /\ \A j \in 1 .. i : argv[j] # End

\* cli::parse.
Route(argv) ==
  IF WantsVersion(argv) THEN [command |-> "version"]
  ELSE IF WantsHelp(argv) THEN [command |-> "help"]
  ELSE LET rest == Tail(argv) IN
    CASE argv[1] = Word("server") -> Server(rest)
      [] argv[1] = Word("join")   -> Join(JoinArgs(rest))
      [] argv[1] = Word("sync")   -> Sync(SyncArgs(rest))
      [] argv[1] = Word("rm")     -> Rm(ParsedArgs(rest, {}, {}))
      [] argv[1] \in {Word("code"), Word("ls")} -> NoArgs(argv[1].name, ParsedArgs(rest, {}, {}))
      [] argv[1] = Word("help")   -> [command |-> "help"]
      [] argv[1] = Word("ping")   -> Refuse("not yet")
      [] OTHER                    -> Refuse("unknown command")

-----------------------------------------------------------------------------
(* What main.rs does with a command: of the flags, those the chosen path   *)
(* reads.                                                                  *)

Flags(command, names) == {f \in command.flags : f[1] \in names}

Has(command, name) == \E f \in command.flags : f[1] = name

Deed(command) ==
  CASE command.command = "sync" /\ Has(command, "uninstall-timer") -> <<"uninstall">>
    [] command.command = "sync" /\ Has(command, "install-timer") ->
         <<"install", Flags(command, {"config", "interval"})>>
    [] command.command = "sync" /\ ~Has(command, "install-timer")
                                /\ ~Has(command, "uninstall-timer") ->
         <<"sync", Flags(command, {"config", "quiet"})>>
    [] command.command = "renew" /\ Has(command, "dns") ->
         <<"dns", Flags(command, {"cf-token", "cf-token-file"})>>
    [] command.command = "renew" /\ ~Has(command, "dns") -> <<"renew", command.flags>>
    [] command.command = "join" /\ ~Has(command, "export") ->
         <<"join", command.words, Flags(command, {"name", "api-port"})>>
    [] command.command = "join" /\ <<"export", "qr">> \in command.flags ->
         <<"qr", command.words, Flags(command, {"name", "api-port"})>>
    [] command.command = "join" /\ <<"export", "conf">> \in command.flags ->
         <<"conf", command.words, Flags(command, {"name", "api-port", "out"})>>
    [] command.command = "init" /\ Has(command, "tls-cert") ->
         <<"manual", Flags(command, {"domain", "tls-cert", "tls-key", "subnet", "port",
             "api-port", "no-systemd", "cf-token", "cf-token-file"})>>
    [] command.command = "init" /\ ~Has(command, "tls-cert") -> <<"acme", command.flags>>
    [] OTHER -> <<command>>

-----------------------------------------------------------------------------
(* Inputs and properties.  A line is a command, its words and a sequence   *)
(* of flag groups, each one token or a flag with the word after it.        *)

Groups(booleans, good, bad) ==
  {<<Long(f)>> : f \in booleans}
  \cup {<<Long(p[1]), Word(p[2])>> : p \in good \cup bad}
  \cup {<<Inline(p[1], p[2])>> : p \in good}

GroupsOf(which) ==
  CASE which = "sync" ->
         Groups({"quiet", "install-timer", "uninstall-timer", "bogus"},
                {<<"config", "/etc/d.json">>, <<"interval", "10m">>},
                {<<"config", "d.json">>, <<"interval", "30s">>})
    [] which = "renew" ->
         Groups({"force", "dns", "acme-staging", "acme-production"},
                {<<"acme-email", "me">>, <<"acme-challenge", "dns-01">>, <<"cf-token", "cf1">>,
                 <<"cf-token-file", "f">>}, {<<"acme-challenge", "tls">>})
    [] which = "join" ->
         Groups({}, {<<"name", "phone">>, <<"export", "conf">>, <<"out", "f">>,
                     <<"api-port", "8443">>}, {<<"export", "qr">>, <<"out", "">>})
    [] which = "init" ->
         Groups({"no-systemd", "acme-staging"},
                {<<"tls-cert", "c">>, <<"tls-key", "k">>, <<"acme-email", "me">>,
                 <<"acme-challenge", "dns-01">>, <<"cf-token", "cf1">>}, {<<"port", "0">>})

Before(which) ==
  CASE which = "sync"  -> <<Word("sync")>>
    [] which = "renew" -> <<Word("server"), Word("renew")>>
    [] which = "join"  -> <<Word("join"), Word("net.example.com"), Word("7QX4-M2KD")>>
    [] which = "init"  -> <<Word("server"), Word("init"), Long("domain"), Word("net.example.com")>>

Line(which, groups) == Before(which) \o FlattenSeq(groups)

\* A flag's other spelling of a value, so that naming the default shows.
Other == [t \in {"dns-01"} |-> "http-01"]

\* Group i left out, or given another value.
Altered(groups, i) ==
  {RemoveAt(groups, i)} \cup
  (IF <<Long("acme-challenge"), Word("dns-01")>> = groups[i]
   THEN {ReplaceAt(groups, i, <<Long("acme-challenge"), Word(Other["dns-01"])>>)}
   ELSE IF <<Inline("acme-challenge", "dns-01")>> = groups[i]
   THEN {ReplaceAt(groups, i, <<Inline("acme-challenge", Other["dns-01"])>>)}
   ELSE {})

\* A flag the command line carries is never accepted and then dropped ("a flag
\* accepted and dropped looks exactly like a flag that worked", cli.rs): left
\* out or changed, the line is refused or does something else.
NothingIgnored(which, groups) ==
  LET command == Route(Line(which, groups)) IN
  command.command # "refused" =>
    \A i \in DOMAIN groups : \E altered \in Altered(groups, i) :
      LET other == Route(Line(which, altered)) IN
      other.command = "refused" \/ Deed(other) # Deed(command)

\* Whether the line is accepted, and what it does, does not depend on the order
\* the flags were typed in.
OrderFree(which, groups) ==
  LET command == Route(Line(which, groups))
      turned  == Route(Line(which, Reverse(groups)))
  IN /\ (command.command = "refused") = (turned.command = "refused")
     /\ command.command # "refused" => Deed(command) = Deed(turned)

\* Everything after "--" is a word: `rm -- --help` removes nothing by that
\* name, and shows no help; without "--" help always wins.
EndIsEnd(before, after) ==
  LET argv == <<Word("rm")>> \o before \o <<End>> \o after IN
  /\ Route(argv).command = "help" <=>
       \E i \in DOMAIN before : before[i] \in {Long("help"), Short("h")}
  /\ Route(argv).command = "rm" <=>
       before \o after \in {<<Word(n)>> : n \in GoodNames}

\* An accepted interval is exactly what was typed, from a minute to a day, how
\* far the product may run past the width of a number.
IntervalExact(count, seconds) ==
  LET interval == Interval(count, seconds) IN
  IF count * seconds \in 60 .. 24 * 60 * 60 THEN interval = count * seconds ELSE interval = 0
=============================================================================
