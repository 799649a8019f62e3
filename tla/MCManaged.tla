----------------------------- MODULE MCManaged -----------------------------
EXTENDS Managed

MCValid(text) == ~Contains(text.lines, "bad")

Wants == {AsIs, Perm("777", ""), Perm("600", ""), Perm("", "app"), Perm("644", "nobody")}
Nodes == {Absent, Node("file", Text(<<"a">>, "lf"), Default), Node("file", Text(<<"b">>, "crlf"), Perm("600", "app")),
          Node("file", Text(<<"s">>, "lf"), Perm("600", "root"))}
Src == Node("file", Text(<<"s">>, "lf"), Default)
FileHost(node) == [node |-> node, dir |-> TRUE, src |-> Src, bak |-> Absent, tmp |-> Absent, got |-> Empty]

FileTasks == [module : {"file"}, state : {"directory", "touch", "absent", "link", "hard", "file"}, want : Wants,
              force : BOOLEAN, backup : BOOLEAN, recurse : {FALSE}, times : {FALSE}]
             \cup [module : {"file"}, state : {"file"}, want : Wants, force : {FALSE}, backup : {FALSE}, recurse : {FALSE}, times : {TRUE}]
FileNodes == Nodes \cup {Node("dir", Empty, Default), Node("link", Empty, AsIs), Node("hard", Empty, AsIs)}

CopyTasks == [module : {"copy"}, from : {"remote", "content", "local"}, text : {Text(<<"a">>, "lf"), Text(<<"bad">>, "lf")},
              want : Wants, force : BOOLEAN, backup : {TRUE}, become : BOOLEAN, validate : BOOLEAN]
TemplateTasks == {[t EXCEPT !.module = "template"] : t \in {t \in CopyTasks : t.from = "local"}}
DirTasks == [module : {"copy_directory"}, text : {Text(<<"a">>, "lf")}, want : Wants, force : BOOLEAN]
FetchTasks == [module : {"fetch"}, fail : BOOLEAN]

Conf == {<<>>, <<"a">>, <<"x=1">>, <<"x=2", "a", "x=1">>, <<"begin", "k", "end", "a">>, <<"a", "begin", "k">>, <<"end", "a">>, <<"begin", "k", "end", "begin", "end">>}
ConfNodes == {Absent} \cup {Node("file", Text(l, "lf"), Default) : l \in Conf} \cup {Node("file", Text(<<"x=1">>, "crlf"), Default)}
Rewrite == [l \in {"x=1", "x=2"} |-> "x=2"]
LineTasks == [module : {"lineinfile"}, state : {"present", "absent"}, line : {"x=2", "y"}, pattern : {NoPattern, {"x=1", "x=2"}},
              first : BOOLEAN, backrefs : {FALSE}, rewrite : {Rewrite}, before : {NoPattern, BOF}, after : {NoPattern, {"a"}},
              create : BOOLEAN, want : {AsIs, Perm("600", "")}, backup : {FALSE}, validate : BOOLEAN, newline : {"lf"}]
BackrefTasks == [module : {"lineinfile"}, state : {"present"}, line : {"y"}, pattern : {NoPattern, {"x=1", "x=2"}, {"x=1"}},
                 first : BOOLEAN, backrefs : {TRUE}, rewrite : {Rewrite}, before : {NoPattern}, after : {NoPattern},
                 create : BOOLEAN, want : {AsIs}, backup : {FALSE}, validate : {FALSE}, newline : {"lf"}]
BlockTasks == [module : {"blockinfile"}, state : {"present", "absent"}, block : {<<>>, <<"k">>, <<"m">>}, before : {NoPattern, BOF},
               after : {NoPattern, {"a"}}, create : BOOLEAN, want : {AsIs, Perm("600", "")}, backup : {FALSE}, validate : {FALSE}, newline : {"lf"}]
ReplaceTasks == [module : {"replace"}, pattern : {{"x=1"}}, rewrite : {Rewrite}, before : {NoPattern, {"a"}}, after : {NoPattern, {"a"}},
                 want : {AsIs}, backup : BOOLEAN, validate : BOOLEAN, newline : {"lf", "crlf"}]

Hosts(Ns) == {FileHost(n) : n \in Ns}
CopyCases == CopyTasks \X Hosts(Nodes) \cup {t \in CopyTasks : t.from # "remote"} \X Hosts({Node("link", Empty, AsIs)})
FileCases == <<FileTasks \X Hosts(FileNodes), CopyCases, TemplateTasks \X Hosts(Nodes),
               DirTasks \X Hosts(Nodes), FetchTasks \X Hosts(Nodes)>>
LineCases == <<(LineTasks \cup BackrefTasks) \X Hosts(ConfNodes), BlockTasks \X Hosts(ConfNodes), ReplaceTasks \X Hosts(ConfNodes)>>

Key(k, n) == [key |-> k, note |-> n]
Listed(lines, live) == [lines |-> lines, live |-> live, bak |-> <<>>]
KeyTasks == [module : {"authorized_key"}, state : {"present", "absent"}, keys : {<<"k">>, <<"k", "l">>, <<"k", "k">>},
             note : {"", "n"}, exclusive : BOOLEAN]
KeyHosts == {Listed(l, "") @@ ("writable" :> w) : w \in BOOLEAN, l \in {<<>>, <<Key("m", ""), Key("#", "")>>, <<Key("k", "o"), Key("m", "")>>, <<Key("k", ""), Key("k", "o")>>}}
Known(hs, ty, b) == [hosts |-> hs, type |-> ty, blob |-> b, hashed |-> FALSE]
KnownTasks == [module : {"known_hosts"}, state : {"present", "absent"}, name : {"h"}, type : {"rsa"}, blob : {"b"}, hash : BOOLEAN]
              \cup [module : {"known_hosts"}, state : {"absent"}, name : {"h"}, type : {"rsa"}, blob : {""}, hash : {FALSE}]
KnownHostsHosts == {Listed(l, "") : l \in {<<>>, <<Known({"h"}, "rsa", "b")>>, <<Known({"g"}, "rsa", "b"), Known({"h"}, "rsa", "c")>>,
                      <<Known({"g", "h"}, "rsa", "c")>>, <<Known({"h"}, "ed", "b")>>}}
CronTasks == [module : {"cron"}, state : {"present", "absent"}, name : {<<>>, <<"n">>}, job : {<<"j">>}, disabled : BOOLEAN, backup : BOOLEAN]
CronHosts == {Listed(l, "") : l \in {<<>>, <<Job(<<"i">>, FALSE)>>, <<Comment(<<"n">>), Job(<<"j">>, TRUE), Job(<<"i">>, FALSE)>>,
                <<Comment(<<"n">>), Comment(<<"m">>), Job(<<"i">>, FALSE)>>, <<Comment(<<"m">>), Job(<<"j", "x">>, FALSE)>>, <<Job(<<"j">>, TRUE), Comment(<<"n">>)>>,
                <<Comment(<<"j", "x">>), Job(<<"i">>, FALSE)>>}}
Set(n, v) == [name |-> n, value |-> v]
SysctlTasks == [module : {"sysctl"}, state : {"present", "absent"}, name : {"s"}, value : {"1", "bad"}, set : BOOLEAN, reload : BOOLEAN, ignore : BOOLEAN]
SysctlHosts == {Listed(l, v) : l \in {<<>>, <<Set("r", "1")>>, <<Set("s", "1")>>, <<Set("s", "0"), Set("r", "1")>>, <<Set("s", "1"), Set("s", "0")>>, <<Set("r", "bad")>>}, v \in {"0", "1"}}
Tab(p, s, o) == [path |-> p, src |-> s, opts |-> o]
MountTasks == [module : {"mount"}, state : {"mounted", "present", "absent", "unmounted", "remounted"}, path : {"p"}, src : {"d", "bad"}, opts : {"defaults", "ro"}, boot : BOOLEAN]
MountHosts == {Listed(l, v) : l \in {<<>>, <<Tab("q", "e", "ro")>>, <<Tab("p", "d", "ro")>>, <<Tab("q", "e", "ro"), Tab("p", "d", "defaults")>>, <<Tab("p", "d", "ro"), Tab("p", "d", "defaults")>>}, v \in {NotMounted, Mounts("d", "ro"), Mounts("d", "defaults")}}
EntryCases == <<KeyTasks \X KeyHosts, KnownTasks \X KnownHostsHosts, CronTasks \X CronHosts,
                SysctlTasks \X SysctlHosts, MountTasks \X MountHosts>>

NameCases == [module : {"hostname"}, name : {"new"}, hostnamectl : BOOLEAN] \X [live : {"old", "new"}, file : {"old", "new"}]
UserTasks == [module : {"user"}, state : {"present"}, shell : {"", "sh"}, groups : {{}, {"g"}, {"ghost"}}, append : BOOLEAN,
              password : {"", "p"}, onCreate : BOOLEAN, lock : {"", "lock", "unlock"}, remove : {FALSE}, key : BOOLEAN]
             \cup [module : {"user"}, state : {"absent", "locked", "unlocked"}, shell : {""}, groups : {{}}, append : {FALSE},
              password : {""}, onCreate : {FALSE}, lock : {""}, remove : BOOLEAN, key : BOOLEAN]
UserHosts == {NoUser, [NoUser EXCEPT !.exists = TRUE, !.locked = TRUE],
              [exists |-> TRUE, shell |-> "sh", groups |-> {"g", "h"}, password |-> "q", locked |-> FALSE, key |-> TRUE]}
GroupCases == [module : {"group"}, state : {"present", "absent"}, gid : {"", "7", "taken"}]
              \X {[exists |-> FALSE, gid |-> ""], [exists |-> TRUE, gid |-> "any"], [exists |-> TRUE, gid |-> "7"]}
AccountCases == <<NameCases, UserTasks \X UserHosts, GroupCases>>

PackVersions == [{"a", "b"} -> {"none", "old", "new"}]
PackageTasks == [module : {"package"}, manager : {"apt", "dnf", "yum", "apk"}, state : {"present", "latest", "absent"}, names : {{}, {"a"}, {"a", "b"}, {"ghost"}}, update : BOOLEAN]
PackageHosts == [versions : {v @@ ("ghost" :> "none") : v \in PackVersions}, fresh : {FALSE}]
PipTasks == [module : {"pip"}, state : {"present", "latest", "absent", "forcereinstall"}, names : {{"a"}, {"a", "b"}, {"ghost"}}, version : {"", "old"}, venv : BOOLEAN, requirements : BOOLEAN]
PipHosts == [versions : {v @@ ("ghost" :> "none") : v \in PackVersions}, venv : {TRUE}, python : {TRUE}]
            \cup [versions : {[p \in {"a", "b", "ghost"} |-> "none"]}, venv : {FALSE}, python : BOOLEAN]
UnitTasks == [module : {"service", "systemd"}, state : {"", "started", "stopped", "restarted", "reloaded"}, enabled : {"", "yes", "no"}, masked : {"", "yes", "no"}, reload : BOOLEAN, local : BOOLEAN]
UnitHosts == [active : BOOLEAN, unit : {"enabled", "disabled", "static"}, masked : BOOLEAN]
ServiceCases == <<PackageTasks \X PackageHosts, PipTasks \X PipHosts, UnitTasks \X UnitHosts>>

GitTasks == [module : {"git"}, state : {"present", "absent"}, repo : {"ours"}, version : {"", "main", "r1"}, clone : BOOLEAN, update : BOOLEAN, force : BOOLEAN]
GitHosts == [dest : {"none", "other"}, origin : {""}, main : {"r1"}, at : {"main"}, dirty : {FALSE}, up : BOOLEAN]
            \cup [dest : {"repo"}, origin : {"ours", "theirs"}, main : {"r1", "r2", "mine"}, at : {"main", "r1"}, dirty : BOOLEAN, up : BOOLEAN]
URLTasks == [module : {"get_url"}, text : {Text(<<"a">>, "lf")}, sum : {NoSum, Text(<<"a">>, "lf"), Text(<<"z">>, "lf")}, force : BOOLEAN,
             backup : BOOLEAN, want : Wants]
ArchiveTasks == [module : {"archive"}, paths : {{"p"}, {"p", "q"}}, piped : BOOLEAN, remove : BOOLEAN, backup : BOOLEAN, owner : {"", "nobody"}]
Pack(S) == [kind |-> "archive", holds |-> S]
ArchiveHosts == [here : {{"p"}, {"p", "q"}, {}}, pack : {Pack({}), Pack({"p"}), Pack({"p", "q"}), [kind |-> "none", holds |-> {}]}, bak : {[kind |-> "none", holds |-> {}]}]
UnpackTasks == [module : {"unarchive"}, remote : BOOLEAN, creates : BOOLEAN, holds : BOOLEAN, good : BOOLEAN, mode : {"", "m"}]
UnpackHosts == [tmp : {FALSE}, files : {"none", "old"}, creates : BOOLEAN, mode : {""}]
TreeFiles == {"f", "g"}
TreeCases == [module : {"synchronize"}, delete : BOOLEAN, existing : BOOLEAN]
             \X [src : [TreeFiles -> {"none", "new"}], dest : [TreeFiles -> {"none", "old", "new"}]]
TempCases == {[module |-> "tempfile"]} \X [writable : BOOLEAN, made : {0}]
Box(i, c, r) == [image |-> i, conf |-> c, runs |-> r]
BoxTasks == [module : {"docker_container"}, state : {"present", "started", "stopped", "restarted", "absent"}, image : {"", "i", "bad"}, conf : {"c"}, pull : BOOLEAN, recreate : BOOLEAN]
BoxHosts == [box : {NoContainer, Box("i", "c", TRUE), Box("i", "d", FALSE), Box("j", "c", TRUE)}, pulled : {"old", "new"}]
K8sTasks == [module : {"k8s"}, state : {"present", "absent"}, objects : {"a" :> "new", ("a" :> "new" @@ "b" :> "new")}]
K8sHosts == [objects : PackVersions, tmp : {FALSE}, kubectl : BOOLEAN]
CommandCases == [module : {"command", "shell"}, creates : BOOLEAN, removes : BOOLEAN, needs : BOOLEAN, local : BOOLEAN] \X [here : SUBSET {"made", "used"}]
UriCases == [module : {"uri"}, codes : {{}, {200, 500}}] \X [status : {0, 200, 500}]
TransferCases == <<GitTasks \X GitHosts, URLTasks \X Hosts(Nodes), ArchiveTasks \X ArchiveHosts, UnpackTasks \X UnpackHosts,
                   TreeCases, TempCases, BoxTasks \X BoxHosts, K8sTasks \X K8sHosts, CommandCases, UriCases>>

MCCases == FileCases \o LineCases \o EntryCases \o AccountCases \o ServiceCases \o TransferCases
=============================================================================
