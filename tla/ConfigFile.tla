----------------------------- MODULE ConfigFile -----------------------------
(***************************************************************************)
(* The lines of smartd.conf and what ParseToken() and ParseConfigLine()    *)
(* (src/smartd.cpp) make of them.  A line, after comments are removed and  *)
(* continued lines joined, is a name and a sequence of directives.         *)
(*                                                                         *)
(* A directive is -d TYPE, one that switches some monitoring on, or one    *)
(* with an argument that replaces an earlier one (-s, -n, -c, -m and the   *)
(* two kinds of -M stand for these).  "bad" is a directive or an argument  *)
(* that is not accepted.                                                   *)
(***************************************************************************)
EXTENDS Sequences, SequencesExt

CONSTANTS
    Names,      \* device names
    Types       \* arguments of -d TYPE but ignore, removable and auto

\* -H -f -t -p -u -l and -W: what is monitored
Monitorings == {"smartcheck", "usagefailed", "prefail", "usage", "selftest", "errorlog",
                "xerrorlog", "offlinests", "selfteststs", "temperature"}
Keys == {"-s", "-n", "-c", "-m", "exec", "freq"}

Directive == [dir: {"-d"}, arg: Types \cup {"ignore", "removable", "auto"}]
             \cup [dir: {"-a", "-H", "-f", "-t", "-p", "-u", "bad"}, arg: {""}]
             \cup [dir: {"-l"}, arg: {"selftest", "error", "xerror", "offlinests", "selfteststs"}]
             \cup [dir: {"-W"}, arg: {"0", "2,40,45"}]
             \cup [dir: Keys, arg: STRING]
Line == [name: Names \cup {"DEFAULT", "DEVICESCAN", "#"}, dirs: Seq(Directive)]

\* dev_config: dev_type "" is automatic; settings that are not made are "".
NoConfig == [name |-> "", lineno |-> 0, dev_type |-> "", ignore |-> FALSE,
             removable |-> FALSE, monitors |-> {}, settings |-> [key \in Keys |-> ""]]

-----------------------------------------------------------------------------
(***************************************************************************)
(* The directives of one line.                                             *)
(***************************************************************************)
MonitorAll == {"smartcheck", "usagefailed", "prefail", "usage", "selftest", "errorlog",
               "selfteststs"}

\* The monitoring a directive switches on.
Adds(t) ==
    CASE t.dir = "-a" -> MonitorAll
      [] t.dir = "-H" -> {"smartcheck"}
      [] t.dir = "-f" -> {"usagefailed"}
      [] t.dir = "-t" -> {"prefail", "usage"}
      [] t.dir = "-p" -> {"prefail"}
      [] t.dir = "-u" -> {"usage"}
      [] t.dir = "-l" /\ t.arg = "error" -> {"errorlog"}
      [] t.dir = "-l" /\ t.arg = "xerror" -> {"xerrorlog"}
      [] t.dir = "-l" /\ t.arg \notin {"error", "xerror"} -> {t.arg}
      [] t.dir = "-W" /\ t.arg # "0" -> {"temperature"}
      [] OTHER -> {}
Removes(t) == IF t.dir = "-W" /\ t.arg = "0" THEN {"temperature"} ELSE {}

\* -d: the types of a DEVICESCAN line are collected, `auto' forgets them.
DeviceType(p, arg) ==
    CASE arg = "ignore" -> [p EXCEPT !.cfg.ignore = TRUE]
      [] arg = "removable" -> [p EXCEPT !.cfg.removable = TRUE]
      [] arg = "auto" -> [p EXCEPT !.cfg.dev_type = "", !.types = << >>]
      [] OTHER -> [p EXCEPT !.cfg.dev_type = arg, !.types = Append(@, arg)]

ParseToken(p, t) ==
    CASE ~p.ok \/ t.dir = "bad" -> [p EXCEPT !.ok = FALSE]
      [] t.dir = "-d" /\ p.ok -> DeviceType(p, t.arg)
      [] t.dir \in Keys /\ p.ok -> [p EXCEPT !.cfg.settings[t.dir] = t.arg]
      [] OTHER -> [p EXCEPT !.cfg.monitors = (@ \cup Adds(t)) \ Removes(t)]

-----------------------------------------------------------------------------
(***************************************************************************)
(* A whole line.  `before' is the entry it begins with, `types' what is in *)
(* the list of types, which the caller clears.                             *)
(***************************************************************************)
IsScan(l) == l.name = "DEVICESCAN"
IsDefault(l) == l.name = "DEFAULT"
IsBlank(l) == l.name = "#"

\* A DEFAULT line forgets the former one.
Before_Kept(l, default_conf) == default_conf
Before(l, default_conf) == IF IsDefault(l) THEN NoConfig ELSE default_conf

\* -M needs an address, and <nomailer> a command.
MailIsPossible(settings) ==
    /\ settings["-m"] = "" => settings["exec"] = "" /\ settings["freq"] = ""
    /\ settings["-m"] = "<nomailer>" => settings["exec"] # ""

ImpliedAll(cfg) == IF cfg.monitors = {} THEN [cfg EXCEPT !.monitors = MonitorAll] ELSE cfg

\* The result: the configuration, the types and whether there was no error.
ParseConfigLine(l, lineno, default_conf, types) ==
    LET cfg == [Before(l, default_conf) EXCEPT !.name = l.name, !.lineno = lineno]
        p == FoldLeft(ParseToken, [cfg |-> cfg, types |-> types, ok |-> TRUE], l.dirs)
    IN  IF ~p.ok \/ (~IsScan(l) /\ Len(p.types) > 1) THEN [p EXCEPT !.ok = FALSE]
        ELSE IF IsDefault(l) THEN p
        ELSE [p EXCEPT !.cfg = ImpliedAll(@), !.ok = MailIsPossible(p.cfg.settings)]
=============================================================================
