-------------------------------- MODULE Advice --------------------------------
(***************************************************************************)
(* What anago tells a person to type or to do next: the output of          *)
(* `server init`, the way round a refusal or a failure, the schedule that  *)
(* `join` offers, the way back for a device that was removed, and what is  *)
(* said of a wait and of a table.  A text is the lines it names and the    *)
(* claims it makes; its wording is left out.                               *)
(*                                                                         *)
(* A line that is advised has to be one that Commands accepts, and to do   *)
(* what it is advised for on the machine it is read on.                    *)
(***************************************************************************)
EXTENDS Commands

-----------------------------------------------------------------------------
(* The output of `server init`.                                            *)

FlagOf(command, name) == (CHOOSE f \in command.flags : f[1] = name)[2]

\* token: Cloudflare could be asked.  address: this machine's own is a public one.
Setups == [token : BOOLEAN, address : BOOLEAN, staging : BOOLEAN, api_port : {"443"},
           challenge : {"manual", "http-01", "dns-01"}]

\* plan: DNS-01 is not planned without a token.
Possible(hub) == hub.challenge = "dns-01" => hub.token

\* Mutation: a zone that was found is a record that was written.
ByHandWithoutZone(hub) == ~hub.token

\* point_dns and is_by_hand: nothing is written without an address.
ByHand(hub) == ~hub.token \/ ~hub.address

DoneForYou(hub) ==
  {job \in {"record", "certificate"} :
     \/ job = "record" /\ ~ByHand(hub)
     \/ job = "certificate" /\ hub.challenge # "manual"}

\* The steps that are printed, in their order; Steps numbers them.
StillYours(hub) ==
  SelectSeq(<<"record", "ports", "grey cloud", "certificate">>,
            LAMBDA step : CASE step = "record"      -> ByHand(hub)
                            [] step = "ports"       -> TRUE
                            [] step = "grey cloud"  -> hub.token
                            [] step = "certificate" -> hub.challenge = "manual")

\* A note inside the record's step: no proxy in front of it.
ProxyNote(hub) == ByHand(hub) /\ ~hub.token

WantsPort80(hub) == hub.challenge = "http-01"

Ports(hub) == {hub.api_port, "51820/udp"} \cup {p \in {"80"} : WantsPort80(hub)}

\* What certificate_ready adds of a CA that nothing trusts.
StagingWarning == <<Word("server"), Word("renew"), Long("acme-production")>>

\* join_line, and `anago code`.
JoinLine(domain, code) == <<Word("join"), Word(domain), Word(code)>>

\* What has to happen before a device can join is done or asked for, and nothing
\* is both; every port that is listened on is named, and no other; somebody is
\* told of the proxy exactly once; the line to paste joins this very hub.
OutputComplete(hub) ==
  LET asked  == ToSet(StillYours(hub))
      listen == {hub.api_port, "51820/udp"} \cup {p \in {"80"} : hub.challenge = "http-01"}
      join   == Route(JoinLine("net.example.com", "7QX4-M2KD"))
      record == hub.token /\ hub.address
  IN /\ DoneForYou(hub) \cap asked = {}
     /\ {"record", "certificate"} \subseteq DoneForYou(hub) \cup asked
     /\ "record" \in DoneForYou(hub) <=> record
     /\ Ports(hub) = listen
     /\ ("grey cloud" \in asked) # ProxyNote(hub)
     /\ join.command = "join" /\ join.words = <<"net.example.com", "7QX4-M2KD">>
     /\ hub.api_port = IF Has(join, "api-port") THEN FlagOf(join, "api-port") ELSE "443"

\* Mutation: the carrier's range is not looked at.
RoutableNoCarrier(a, b, c) ==
  ~ (a \in {0, 10, 127} \/ a >= 224 \/ (a = 172 /\ b \in 16 .. 31) \/ <<a, b>> = <<192, 168>>
     \/ <<a, b>> = <<169, 254>> \/ <<a, b, c>> \in {<<192, 0, 2>>, <<198, 51, 100>>, <<203, 0, 113>>})

\* routable_address.
Routable(a, b, c) ==
  ~ (a \in {0, 10, 127} \/ a >= 224 \/ (a = 172 /\ b \in 16 .. 31) \/ <<a, b>> = <<192, 168>>
     \/ <<a, b>> = <<169, 254>> \/ (a = 100 /\ b \in 64 .. 127)
     \/ <<a, b, c>> \in {<<192, 0, 2>>, <<198, 51, 100>>, <<203, 0, 113>>})

\* An address is printed for a public record exactly when it is outside every
\* range that the world does not route, each by its first and last /24.
RoutableExact(a, b, c) ==
  LET at == a * 65536 + b * 256 + c
      reserved == {<<0, 65535>>, <<655360, 720895>>, <<6569984, 6586367>>, <<8323072, 8388607>>,
                   <<11140608, 11140863>>, <<11276288, 11280383>>, <<12582914, 12582914>>,
                   <<12625920, 12626175>>, <<12989284, 12989284>>, <<13303921, 13303921>>,
                   <<14680064, 16777215>>}
  IN Routable(a, b, c) <=> ~ \E r \in reserved : at \in r[1] .. r[2]

-----------------------------------------------------------------------------
(* The way round a refusal or a failure.                                   *)

\* A line with one flag put in, or put right, and with some flags left out.
Without(groups, names) == SelectSeq(groups, LAMBDA g : g[1].name \notin names)
WithFlag(groups, group) == Append(Without(groups, {group[1].name}), group)

Over(challenge) == <<Long("acme-challenge"), Word(challenge)>>
TokenFile == <<Long("cf-token-file"), Word("f")>>
Email == <<Long("acme-email"), Word("me")>>

\* A hub that is to be renewed, and whether its state names a token file.
Hubs == {h \in [challenge : {"manual", "http-01", "dns-01"}, token : BOOLEAN] :
           h.token <=> h.challenge = "dns-01"}

GivenToken(command) == Has(command, "cf-token") \/ Has(command, "cf-token-file")

\* resulting_challenge.
Resulting(hub, command) ==
  IF Has(command, "acme-challenge") THEN FlagOf(command, "acme-challenge")
  ELSE IF hub.challenge = "manual" THEN "http-01" ELSE hub.challenge

\* What `server renew` makes of a hub, as far as it refuses.
Renews(hub, command, env) ==
  LET token == GivenToken(command) \/ hub.token \/ env
  IN IF Has(command, "dns") THEN IF token THEN [command |-> "push"] ELSE Refuse("no token")
     ELSE FirstOf(<<If(GivenToken(command) /\ Resulting(hub, command) # "dns-01", "no job"),
                    If(hub.challenge = "manual" /\ ~Has(command, "acme-email"), "not ours"),
                    If(Resulting(hub, command) = "dns-01" /\ ~token, "no token for dns-01")>>,
                  [command |-> Resulting(hub, command)])

\* Mutation: the token flag stays beside --dns, and so does the rest.
WayRoundKeepingAll(hub, command, groups, why) ==
  {<<WithFlag(groups, <<Long("dns")>>), "push">>}

\* What RenewError says to type instead, and what that is for.
WayRound(hub, command, groups, why) ==
  CASE why = "no job"   -> {<<WithFlag(groups, Over("dns-01")), "dns-01">>,
                            <<WithFlag(SelectSeq(groups, LAMBDA g : g[1].name \in {"cf-token", "cf-token-file"}),
                                       <<Long("dns")>>), "push">>}
    [] why = "not ours" -> {<< <<Email>>, "http-01">>}
    [] why = "no token" -> {<<WithFlag(groups, TokenFile), "push">>}
    [] why = "no token for dns-01" -> {<<WithFlag(groups, TokenFile), "dns-01">>,
                                       <<Without(groups, {"acme-challenge"}), "http-01">>}
    [] OTHER -> {}

\* Mutation: another challenge is named beside the one that was typed.
NoSwitchAppended(groups, challenge) == Append(groups, Over(challenge))

\* no_automatic_switch, of DNS-01, and Listen, of a port that cannot be had.
NoSwitch(groups, challenge) == WithFlag(groups, Over(challenge))

\* What is typed instead, of a run that was refused or that failed over its
\* challenge, brings what it was said to bring.  Only where the certificate is
\* somebody else's may it be refused once more, and then for that.
RenewalAdvice(hub, groups, env) ==
  LET command == Route(Line("renew", groups))
      outcome == Renews(hub, command, env)
      Brings(line, what) ==
        LET next == Route(Line("renew", line)) IN
        /\ next.command = "renew"
        /\ \/ Renews(hub, next, env).command = what
           \/ /\ hub.challenge = "manual" /\ outcome = Refuse("no job")
              /\ Renews(hub, next, env) = Refuse("not ours")
  IN command.command = "renew" =>
       /\ outcome.command = "refused" =>
            \A way \in WayRound(hub, command, groups, outcome.why) : Brings(way[1], way[2])
       /\ outcome.command = "dns-01" /\ ~GivenToken(command) =>
            Brings(NoSwitch(groups, "http-01"), "http-01")
       /\ outcome.command = "http-01" =>
            Brings(WithFlag(NoSwitch(groups, "dns-01"), TokenFile), "dns-01")

\* rate_limit_advice: no staging to somebody whose hub is up.
StagingAdvised(limited, serving) == limited /\ ~serving

\* A first run that failed over its challenge, or at a limit, is given a line that
\* is the same but for that; one that serves is never sent to staging.
SetupAdvice(groups) ==
  LET PlanOf(line) ==
        LET argv == Line("init", line)
            parsed == InitArgs(Tail(Tail(argv)))
        IN IF Route(argv).command # "init" THEN Refuse("line") ELSE Plan(parsed, Source(parsed))
      plan == PlanOf(groups)
      tokened == IF \E i \in DOMAIN groups : groups[i][1].name = "cf-token" THEN groups
                 ELSE WithFlag(groups, TokenFile)
  IN plan.command = "acme" =>
       /\ plan.challenge = "dns-01" =>
            PlanOf(NoSwitch(groups, "http-01")) = [plan EXCEPT !.challenge = "http-01"]
       /\ plan.challenge = "http-01" =>
            PlanOf(NoSwitch(tokened, "dns-01")) = [plan EXCEPT !.challenge = "dns-01"]
       /\ StagingAdvised(TRUE, FALSE) =>
            PlanOf(WithFlag(groups, <<Long("acme-staging")>>)) = [plan EXCEPT !.directory = "staging"]
       /\ plan.directory = "staging" =>
            Deed(Route(StagingWarning)) = <<"renew", {<<"acme-production", Absent>>}>>
       /\ ~StagingAdvised(TRUE, TRUE) /\ ~StagingAdvised(FALSE, FALSE)

-----------------------------------------------------------------------------
(* What is said of a wait, and of time.                                    *)

\* Mutation: the last moment is taken for a good one.
WhileYouWaitLoose(notAfter, now, wait) ==
  CASE notAfter = {} -> "unread"
    [] \E n \in notAfter : n <= now -> "lapsed"
    [] \E n \in notAfter : n > now /\ wait = {} -> "unknown"
    [] OTHER -> IF \E n \in notAfter, w \in wait : w > n - now THEN "lapses" ELSE "free"

\* while_you_wait.
WhileYouWait(notAfter, now, wait) ==
  CASE notAfter = {} -> "unread"
    [] \E n \in notAfter : n <= now -> "lapsed"
    [] \E n \in notAfter : n > now /\ wait = {} -> "unknown"
    [] OTHER -> IF \E n \in notAfter, w \in wait : w >= n - now THEN "lapses" ELSE "free"

\* Waiting is called free exactly when the certificate is trusted all the way,
\* and what is said of an expiry is true at the time it is said of.
WaitTrue(notAfter, now, wait) ==
  LET said == WhileYouWait(notAfter, now, wait)
      Trusted(t) == \A n \in notAfter : t < n
  IN /\ said = "free" <=> notAfter # {} /\ wait # {} /\ \A w \in wait : \A t \in now .. now + w : Trusted(t)
     /\ said = "lapsed" <=> ~Trusted(now)
     /\ said = "lapses" <=> Trusted(now) /\ \E w \in wait : ~Trusted(now + w)

Minute == 60
Hour == 60 * Minute
Day == 24 * Hour

\* format_ago and format_in: a number of units, "now" being none.
Rounded(seconds) ==
  LET unit == CASE seconds < Minute -> 1
                [] seconds >= Minute /\ seconds < Hour -> Minute
                [] seconds >= Hour /\ seconds < Day -> Hour
                [] OTHER -> Day
  IN [count |-> seconds \div unit, unit |-> unit]
Now == [count |-> 0, unit |-> 1]

FormatAgo(seconds) == IF seconds <= 9 THEN Now ELSE Rounded(seconds)
FormatIn(seconds) == IF seconds <= 0 THEN Now ELSE Rounded(seconds)

\* Mutation: a wait is rounded the way a time past is.
AboutDown(seconds) ==
  LET unit == IF seconds >= Hour THEN Hour ELSE Minute
  IN [count |-> Max({1, seconds \div unit}), unit |-> unit]

\* about: a wait, in hours or minutes, up to the next one.
About(seconds) ==
  LET unit == IF seconds >= Hour THEN Hour ELSE Minute
  IN [count |-> Max({1, (seconds + unit - 1) \div unit}), unit |-> unit]

\* A time is never said to be longer than it is, nor shorter by a whole unit, nor
\* in units that would read as none or as one of the next; never negative.  A
\* wait is never said to be shorter than it will be.
TimeSaid(seconds) ==
  /\ \A said \in {FormatAgo(seconds), FormatIn(seconds)} :
       IF said = Now THEN seconds <= 9
       ELSE /\ said.count >= 1
            /\ said.count * said.unit <= seconds /\ seconds < (said.count + 1) * said.unit
            /\ said.unit = Day \/ said.count < (IF said.unit = Hour THEN 24 ELSE 60)
  /\ seconds >= 0 =>
       LET said == About(seconds)
       IN /\ said.count >= 1 /\ said.count * said.unit >= seconds
          /\ seconds > 0 => (said.count - 1) * said.unit < seconds

-----------------------------------------------------------------------------
(* A schedule, a way back, an export.                                      *)

\* How many files a schedule has.
Files(machine) == CASE machine = "systemd" -> 2 [] machine = "launchd" -> 1 [] OTHER -> 0

Present(expected, found) ==
  IF found = 0 THEN "none" ELSE IF found >= expected THEN "files" ELSE "partial"

Install == <<Word("sync"), Long("install-timer")>>
Uninstall == <<Word("sync"), Long("uninstall-timer")>>

\* Mutation: what is left of a schedule is installed over.
TimerAdviceInstall(machine, present) ==
  CASE present = "partial" -> <<Install>>
    [] present = "files"   -> <<Uninstall, Install>>
    [] OTHER               -> <<Install>>

\* timer::advice.
TimerAdvice(machine, present) ==
  CASE present = "partial" -> <<Uninstall, Install>>
    [] present = "files"   -> <<Uninstall, Install>>
    [] OTHER               -> <<Install>>

\* What a line leaves of the files: install refuses what is there.
AfterTimer(machine, found, line) ==
  CASE Deed(Route(line))[1] = "uninstall" -> 0
    [] Deed(Route(line))[1] = "install"   -> IF found = 0 THEN Files(machine) ELSE found
    [] OTHER -> found

\* Typed in their order, from whatever is there, the lines leave a whole schedule;
\* and none is said to be here unless all of it is.
ScheduleAdvice(machine, found) ==
  LET present == Present(Files(machine), found)
      lines   == TimerAdvice(machine, present)
      left[i \in 0 .. Len(lines)] ==
        IF i = 0 THEN found ELSE AfterTimer(machine, left[i - 1], lines[i])
  IN /\ \A i \in DOMAIN lines : Route(lines[i]).command = "sync"
     /\ left[Len(lines)] = Files(machine)
     /\ present = "files" <=> found > 0 /\ found = Files(machine)

\* Mutation: the device file is all that is named.
RejoinStepsFile == {"device.json"}

\* rejoin_steps: what is taken down and deleted before `anago join`.
RejoinSteps == {"interface", "anago.conf", "device.json"}

\* Who is told to: sync, by its decision; ls and rm, by the hub's answer; rm of
\* oneself.
ToldToRejoin(command, answer) ==
  \/ command = "sync" /\ answer \in {"unauthorized", "dropped"}
  \/ command \in {"ls", "rm"} /\ answer = "unauthorized"
  \/ command = "rm" /\ answer = "removed itself"

\* check_not_joined and the interface: what a join refuses to find.
InTheWay == {"device.json", "anago.conf", "interface"}

\* sync's report, one line: with --quiet, only what a person has to act on; and the
\* way back on the line that says why.
SyncReport(outcome, quiet) ==
  IF quiet /\ outcome \notin {"unauthorized", "dropped"} THEN {}
  ELSE {outcome} \cup {"rejoin" : o \in {outcome} \cap {"unauthorized", "dropped"}}

\* The devices that are told to join again are those the hub no longer knows, by a
\* schedule's quiet run too, and what they are told leaves nothing that a join
\* refuses.
RejoinAdvice(command, answer) ==
  /\ ToldToRejoin(command, answer) <=> answer \in {"unauthorized", "dropped", "removed itself"}
  /\ ToldToRejoin(command, answer) => InTheWay \ RejoinSteps = {}
  /\ command = "sync" => \A quiet \in BOOLEAN :
       "rejoin" \in SyncReport(answer, quiet) <=> ToldToRejoin(command, answer)

\* export_warning: how to have a file of it, and how to undo it.
ExportWarning(command, groups, name) ==
  {Line("join", WithFlag(WithFlag(groups, <<Long("export"), Word("conf")>>), <<Long("out"), Word("f")>>)) :
     x \in {f \in {"file"} : ~Has(command, "out")}}
  \cup {<<Word("rm"), Word(name)>>}

\* export_note: the same ways, and the way out of a code that will not scan.
ExportNote(command, groups, name) ==
  ExportWarning(command, groups, name)
  \cup UNION {{<<Word("code")>>, Line("join", WithFlag(groups, <<Long("export"), Word("conf")>>))} :
                x \in {kind \in {FlagOf(command, "export")} : kind = "qr"}}

\* Every line beside an exported profile is one that is accepted.
ExportHeard(groups) ==
  LET command == Route(Line("join", groups))
  IN command.command = "join" /\ Has(command, "export") =>
       \A line \in ExportNote(command, groups, FlagOf(command, "name")) :
         Route(line).command \in {"rm", "join", "code"}

-----------------------------------------------------------------------------
(* The table of `ls`: a cell is its width on the screen.                   *)

Headers == <<4, 7, 10, 14>>

WidthsOf(rows) == [i \in 1 .. 4 |-> Max({Headers[i]} \cup {rows[r][i] : r \in DOMAIN rows})]

\* Mutation: a cell is followed by two blanks and no more.
WriteRowRagged(cells, widths) ==
  FoldLeft(LAMBDA line, i : line \o [c \in 1 .. cells[i] |-> i]
                            \o [c \in 1 .. (IF i < 4 THEN 2 ELSE 0) |-> 0], <<>>, <<1, 2, 3, 4>>)

\* write_row: a line of marks, each the number of its cell, 0 a blank.
WriteRow(cells, widths) ==
  FoldLeft(LAMBDA line, i : line \o [c \in 1 .. cells[i] |-> i]
                            \o [c \in 1 .. (IF i < 4 THEN widths[i] - cells[i] + 2 ELSE 0) |-> 0],
           <<>>, <<1, 2, 3, 4>>)

PeerTable(rows) ==
  IF rows = <<>> THEN <<>>
  ELSE [i \in 0 .. Len(rows) |-> WriteRow(IF i = 0 THEN Headers ELSE rows[i], WidthsOf(rows))]

\* A column starts at one place in every line, two cells never touch, nothing is
\* cut off, and no line ends in a blank.
TableAligned(rows) ==
  LET table == PeerTable(rows)
      Starts(line) == [i \in 1 .. 4 |-> Min({c \in DOMAIN line : line[c] = i})]
  IN rows # <<>> =>
       /\ \A i \in DOMAIN table : Starts(table[i]) = Starts(table[0])
       /\ \A i \in DOMAIN table : table[i][Len(table[i])] = 4
       /\ \A i \in DOMAIN rows, k \in 1 .. 4 :
            Cardinality({c \in DOMAIN table[i] : table[i][c] = k}) = rows[i][k]
       /\ \A i \in DOMAIN rows, k \in 2 .. 4 : table[i][Starts(table[i])[k] - 1] = 0
=============================================================================
