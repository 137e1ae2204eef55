------------------------------- MODULE MCEventLoop -------------------------------
(* Instances of EventLoop for TLC: what clients ask for and the rules.     *)
EXTENDS EventLoop, TLC

Symmetry == Permutations(Slots)

resp(h, b) == [header |-> h, body |-> b]

ask(kind, head, body, file, script, response) ==
    [kind |-> kind, head |-> head, body |-> body, file |-> file,
     script |-> script, response |-> response]

errorPage == resp(1, 0)

paths == {"", "page", "script"}

(* No rules: a malformed request, a file, and a CGI whose body does not    *)
(* fit a buffer of 2.                                                      *)
plainRequests == {ask("bad", 2, 0, "", "", errorPage),
                  ask("static", 1, 0, "page", "", resp(1, 1)),
                  ask("cgi", 1, 2, "script", "script", resp(0, 1))}
noRules == {}
noMatch == [f \in paths |-> {}]
noLimit == [r \in {} |-> 0]

(* One rule, of two units or of one unit per second, for files and         *)
(* scripts; a file and an error page take as long to send.                 *)
rule == {1}
match == [f \in paths |-> IF f = "" THEN {} ELSE rule]
twoUnits == [r \in rule |-> 2]
oneUnit == [r \in rule |-> 1]
noMinimum == [r \in rule |-> 0]

longPage == resp(1, 3)
files == {ask("static", 1, 0, "page", "", longPage)}
filesAndScripts == files \union {ask("cgi", 1, 0, "script", "script", resp(0, 1))}
=============================================================================
