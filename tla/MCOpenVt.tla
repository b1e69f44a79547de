------------------------------ MODULE MCOpenVt ------------------------------
(* Two programs over four consoles, the last without a bit in v_state; a   *)
(* user's, a setuid and a root's openvt, and one started by init.          *)
EXTENDS OpenVt, TLC

By(prog, opt, vt, real, effective) ==
    [prog |-> prog, opt |-> opt, vt |-> vt, caller |-> real, euid |-> effective,
     leader |-> FALSE]

Root(prog, opt, vt) == By(prog, opt, vt, "root", "root")
Setuid(opt, vt) == By("openvt", opt, vt, "user", "root")
FromInit == [Root("openvt", {"exec"}, 0) EXCEPT !.leader = TRUE]
ShowAndWait == Setuid({"switch", "wait"}, 0)

Both(c, S) == {("p1" :> c @@ "p2" :> d) : d \in S}

MCCommands ==
    UNION {Both(ShowAndWait, {Root("openvt", {}, 0), Root("deallocvt", {}, 0),
                              Root("deallocvt", {}, 2)}),
           Both(Root("openvt", {"user", "switch"}, 0), {Root("chvt", {}, 3), FromInit}),
           Both(Setuid({"console"}, 2), {Root("openvt", {"console", "force"}, 2),
                                         Root("openvt", {"console"}, 4), Setuid({"user"}, 0)}),
           Both(Root("chvt", {}, 2), {Root("deallocvt", {}, 1), Root("openvt", {"exec"}, 0)})}

(* A free console may be left with the user of an earlier openvt or X.     *)
MCOwners == {[v \in VT |-> IF v = 4 THEN "root" ELSE "user"],
             [v \in VT |-> IF v \in {1, 3} THEN "user" ELSE "root"],
             [v \in VT |-> "root"]}
=============================================================================
