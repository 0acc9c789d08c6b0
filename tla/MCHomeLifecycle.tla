-------------------------- MODULE MCHomeLifecycle --------------------------
(* Instances of HomeLifecycle: two profiles whose pack brings a skill along, or not. *)
EXTENDS HomeLifecycle, TLC

CONSTANTS work, play, skill, p1, p2

\* Version "2" brings another skill, version "3" none.  Only "1" sets a key.
ShipsValue == ("1" :> {skill}) @@ ("2" :> {skill}) @@ ("3" :> {})

Nowhere == [disk |-> [t \in Target |-> Nothing], setting |-> "none",
            marker |-> [p \in Profile |-> NoMarker],
            docs |-> {},
            current |-> [p \in Profile |-> 0], blocks |-> {},
            journal |-> [p \in Profile |-> "none"]]

\* `work` was installed by a version of dshpack that kept no inventory.
Inherited ==
    [Nowhere EXCEPT !.disk = [t \in Target |-> IF t = play THEN Nothing ELSE [bytes |-> "1", by |-> Legacy]],
                    !.setting = "1",
                    !.marker[work] = [NoMarker EXCEPT !.schema = "v0", !.pack = "1", !.plugins = "1"],
                    !.journal[work] = "create"]

Line(verb, p, v, only, number, flags) ==
    [verb |-> verb, profile |-> p, version |-> v, only |-> only, number |-> number, flags |-> flags]

Install(p, v, flags) == Line("install", p, v, {}, 0, flags)
Update(p, v, only, flags) == Line("update", p, v, only, 0, flags)
Uninstall(p, flags) == Line("uninstall", p, "none", {}, 0, flags)
Restore(p, n, flags) == Line("restore", p, "none", {}, n, flags)
Gc(keep) == Line("gc", "all", "none", {}, keep, {})
Migrate(p) == Line("migrate", p, "none", {}, 0, {})

\* `work` lives through everything; `play` is there to share the skill and the store.
Everything ==
    {Install(work, "1", {}), Install(work, "2", {"replace", "force"}), Update(work, "2", {}, {"ours"}),
     Update(work, "2", {"setting"}, {}), Update(work, "3", {}, {"theirs"}),
     Uninstall(work, {}), Uninstall(work, {"purge"}), Uninstall(work, {"force", "keep-assets"}),
     Update(work, "3", {}, {}), Restore(work, 0, {}), Restore(work, 1, {"force"}), Gc(0), Gc(1), Migrate(work),
     Install(play, "1", {"force"}), Uninstall(play, {"purge"})}

\* What a command leaves behind that nobody disturbs.
RECURSIVE After(_, _)
After(h, stages) ==
    IF stages = <<>> THEN h
    ELSE IF Head(stages) = {} THEN After(h, Tail(stages))
    ELSE LET w == CHOOSE w \in Head(stages) : TRUE
         IN After(Done(h, w), <<Head(stages) \ {w}>> \o Tail(stages))

Installed == After(Nowhere, InstallWrites(Nowhere, Install(work, "1", {})))
Begin == {Nowhere, Inherited, Installed}

\* The few commands that a question is about.
UpdateThenRestore == {Update(work, "2", {}, {"ours"}), Restore(work, 1, {})}
JustInstalled == {Installed}

Symmetric == Permutations({p1, p2})
=============================================================================
