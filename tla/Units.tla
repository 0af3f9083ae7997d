------------------------------- MODULE Units --------------------------------
(***************************************************************************)
(* systemd-vserver-generator: the units that systemd starts the guests     *)
(* with, made from the configuration, when any of its calls may fail.      *)
(***************************************************************************)
EXTENDS Naturals, Sequences, SequencesExt, FiniteSets

CONSTANTS
    Configs,    \* sequences of guests [name, type, disabled, vdir, mark, depends]; a file is
                \* [kind, lines, full], a line the sequence of its characters, a comment or blank
    MaxSteps    \* calls that fail

VARIABLES
    conf, pc,
    g,          \* index of the directory entry
    l,          \* index of the line
    rc,         \* of generate_units
    res,        \* of read_file
    target,     \* targetdir_fd is open
    depdir,     \* depdir_fd: "none", "open"
    units,      \* the links <<directory, name>> in the unit directory
    failed,     \* history: the guests for which something failed
    steps

vars == <<conf, pc, g, l, rc, res, target, depdir, units, failed, steps>>

Init ==
    /\ conf \in Configs
    /\ pc = "unitdir" /\ g = 1 /\ l = 1 /\ rc = TRUE /\ res = TRUE /\ target = FALSE /\ depdir = "none"
    /\ units = {} /\ failed = {} /\ steps = 0

G == conf[g]
Fails == steps < MaxSteps /\ steps' = steps + 1
Works == UNCHANGED steps

\* systemd_escape: slashes, and what must not be in the name of a unit
systemd_escape(name) ==
    LET escaped(c) == CASE c = "/"     -> <<"-">>
                        [] c = "-"     -> <<"\\", "x", "2", "d">>
                        [] c = "tab"   -> <<"\\", "x", "0", "9">>
                        [] OTHER       -> <<c>>
    IN  FlattenSeq([k \in DOMAIN name |-> escaped(name[k])])

Service(name)  == <<"vserver@", systemd_escape(name)>>
Target(name)   == <<"vserver-mark@", systemd_escape(name)>>
Requires(name) == <<"requires", systemd_escape(name)>>
Wants(name)    == <<"wants", systemd_escape(name)>>
All == <<"wants", <<"vserver.target">>>>

-----------------------------------------------------------------------------
\* main: open_or_mkdir_rec of the unit directory, opendir of the configuration
openUnitdir ==
    /\ pc = "unitdir"
    /\ \/ Works /\ pc' = "target" /\ UNCHANGED rc
       \/ Fails /\ pc' = "end" /\ rc' = FALSE
    /\ UNCHANGED <<conf, g, l, res, target, depdir, units, failed>>

\* generate_units: a failure to open vserver.target.wants is not noticed
openTarget ==
    /\ pc = "target" /\ pc' = "entry"
    /\ \/ Works /\ target' = TRUE
       \/ Fails /\ UNCHANGED target
    /\ UNCHANGED <<conf, g, l, rc, res, depdir, units, failed>>

Skip == pc' = "entry" /\ g' = g + 1

\* IGNORE_PATTERN, "disabled" and "vdir"
Ignored(v) == v.type = "backup" \/ v.disabled \/ ~v.vdir

\* The directory entry: hidden ones and what is no directory are left out. When the
\* type is not told and cannot be found out, it is what was in memory.
entry ==
    /\ pc = "entry" /\ g <= Len(conf)
    /\ \/ G.type \in {"hidden", "file"} /\ Skip /\ Works /\ UNCHANGED failed
       \/ G.type \in {"dir", "unknown", "backup"} /\ Fails /\ Skip /\ failed' = failed \cup {g}
       \/ /\ G.type \in {"dir", "unknown", "backup"} /\ (Works \/ (G.type = "unknown" /\ Fails)) /\ UNCHANGED failed
          /\ IF Ignored(G) THEN Skip ELSE pc' = "mark" /\ UNCHANGED g
    /\ l' = 1 /\ res' = TRUE /\ depdir' = "none"
    /\ UNCHANGED <<conf, rc, target, units>>

\* readdir fails: the rest is given up
readdirFails ==
    /\ pc = "entry" /\ Fails /\ pc' = "end" /\ rc' = FALSE
    /\ failed' = failed \cup {k \in DOMAIN conf : k >= g}
    /\ UNCHANGED <<conf, g, l, res, target, depdir, units>>

entriesEnd ==
    /\ pc = "entry" /\ g > Len(conf) /\ pc' = "end"
    /\ UNCHANGED <<conf, g, l, rc, res, target, depdir, units, failed, steps>>

\* The file that is read, and what comes after it
File == IF pc = "mark" THEN G.mark ELSE G.depends
Fail == rc' = FALSE /\ failed' = failed \cup {g}
After ==
    /\ l' = 1 /\ res' = TRUE
    /\ IF pc = "mark" THEN pc' = "depends" /\ UNCHANGED g ELSE Skip

\* read_file: a file that is not there, or cannot be looked at, is no failure; one that
\* is empty cannot be mapped, and is
NoFile ==
    /\ pc \in {"mark", "depends"} /\ l = 1
    /\ \/ File.kind = "none" /\ Works /\ UNCHANGED <<rc, failed>>
       \/ File.kind = "special" /\ Works /\ Fail
       \/ File.kind = "regular" /\ File.lines = << >> /\ Works /\ Fail
       \/ File.kind = "regular" /\ Fails /\ Fail
       \/ File.kind = "regular" /\ Fails /\ failed' = failed \cup {g} /\ UNCHANGED rc
    /\ After
    /\ UNCHANGED <<conf, target, depdir, units>>

\* An unlink and a link: what comes of those links that are made, and of those that
\* fail, whose predecessors may be gone
xsymlinkat(made, failing) == \E lost \in SUBSET failing : units' = (units \ lost) \cup made

Empty(line) == line \in {<<"#">>, << >>}

\* Fault: only the target is made to want the guest.
mark_handler_Half(m) == {<<All, Target(m)>>}

\* The links that mark_handler makes
mark_handler(m) == {<<All, Target(m)>>, <<Wants(m), Service(G.name)>>}

\* A line of the mark file; both links are tried
markLine ==
    /\ pc = "mark" /\ File.kind = "regular" /\ l <= Len(File.lines) /\ res
    /\ LET m == File.lines[l]
       IN  IF Empty(m) THEN Works /\ UNCHANGED <<units, res, rc, failed>>
           ELSE \/ target /\ Works /\ xsymlinkat(mark_handler(m), {}) /\ UNCHANGED <<res, rc, failed>>
                \/ /\ res' = FALSE /\ Fail
                   /\ \/ ~target /\ Works /\ xsymlinkat({<<Wants(m), Service(G.name)>>}, {})
                      \/ ~target /\ Fails /\ xsymlinkat({}, {<<Wants(m), Service(G.name)>>})
                      \/ target /\ Fails /\ \E u \in mark_handler(m) : xsymlinkat(mark_handler(m) \ {u}, {u})
                      \/ target /\ Fails /\ xsymlinkat({}, mark_handler(m))
    /\ l' = l + 1
    /\ UNCHANGED <<conf, pc, g, target, depdir>>

\* A line of the depends file; the directory is made for the first
dependsLine ==
    /\ pc = "depends" /\ File.kind = "regular" /\ l <= Len(File.lines) /\ res
    /\ LET d == File.lines[l]
       IN  IF Empty(d) THEN Works /\ UNCHANGED <<units, res, rc, failed, depdir>>
           ELSE \/ Works /\ depdir' = "open" /\ xsymlinkat({<<Requires(G.name), Service(d)>>}, {}) /\ UNCHANGED <<res, rc, failed>>
                \/ Fails /\ depdir' = "open" /\ xsymlinkat({}, {<<Requires(G.name), Service(d)>>}) /\ res' = FALSE /\ Fail
                \/ Fails /\ depdir = "none" /\ res' = FALSE /\ Fail /\ UNCHANGED <<units, depdir>>
    /\ l' = l + 1
    /\ UNCHANGED <<conf, pc, g, target>>

\* The end of the file; the byte behind it is looked at after trailing white space,
\* and may be on a page that is not mapped
fileEnd ==
    /\ pc \in {"mark", "depends"} /\ File.kind = "regular" /\ File.lines # << >> /\ (l > Len(File.lines) \/ ~res)
    /\ \/ After /\ Works
       \/ File.full /\ res /\ Works /\ pc' = "crashed" /\ UNCHANGED <<g, l, res>>
    /\ UNCHANGED <<conf, rc, target, depdir, units, failed>>

-----------------------------------------------------------------------------
Next ==
    openUnitdir \/ openTarget \/ entry \/ readdirFails \/ entriesEnd \/ NoFile \/ markLine \/ dependsLine \/ fileEnd

Spec == Init /\ [][Next]_vars

-----------------------------------------------------------------------------
\* The variables have their types.
TypeOK ==
    /\ pc \in {"unitdir", "target", "entry", "mark", "depends", "end", "crashed"}
    /\ g \in 1 .. Len(conf) + 1 /\ rc \in BOOLEAN /\ res \in BOOLEAN /\ target \in BOOLEAN
    /\ failed \subseteq DOMAIN conf /\ steps \in 0 .. MaxSteps

\* The guests that are to have units, and the names in their files
Guests == {k \in DOMAIN conf : conf[k].type \in {"dir", "unknown"} /\ ~conf[k].disabled /\ conf[k].vdir}
Named(f) == IF f.kind = "regular" THEN ToSet(f.lines) \ {<<"#">>, << >>} ELSE {}
Marks(k, ms) == {<<All, Target(m)>> : m \in ms} \cup {<<Wants(m), Service(conf[k].name)>> : m \in ms}
Dependencies(k, ds) == {<<Requires(conf[k].name), Service(d)>> : d \in ds}
Wanted(k) == Marks(k, Named(conf[k].mark)) \cup Dependencies(k, Named(conf[k].depends))

\* Whatever fails for one guest, the others have all of their units, and no guest
\* that is disabled or a backup has any.  But for the link of a mark that they share:
\* it is removed before it is made again for the next guest, and that may fail.
OthersComplete ==
    pc = "end" /\ target =>
        /\ \A k \in Guests \ failed : Wanted(k) \ UNION {Wanted(j) : j \in Guests \cap failed} \subseteq units
        /\ units \subseteq UNION {Wanted(k) : k \in Guests}

\* The generator succeeds only when every unit is there; an entry of the configuration
\* directory that cannot be opened, and a file that cannot be looked at, are left out
\* in silence.
SuccessIsComplete ==
    pc = "end" /\ rc => \A k \in Guests : Wanted(k) \subseteq units \/ k \in failed

\* Two guests, and two dependencies, are never the same for systemd: a name without
\* a backslash can be read back from its unit.
NamesAreKept ==
    LET names == {n \in {conf[k].name : k \in DOMAIN conf} \cup UNION {Named(conf[k].depends) : k \in DOMAIN conf} :
                    "\\" \notin ToSet(n)}
    IN  pc = "end" /\ steps = 0 /\ rc =>
            \A k \in Guests : "\\" \notin ToSet(conf[k].name) =>
                Cardinality({u \in units : u[1] = Requires(conf[k].name)})
                  >= Cardinality({d \in Named(conf[k].depends) : d \in names})
                /\ \A j \in Guests \ {k} : conf[j].name \in names => Requires(conf[j].name) # Requires(conf[k].name)

-----------------------------------------------------------------------------
\* The configuration directory: no two entries have the same name.
TextFile == [kind : {"none", "special", "regular"}, lines : Seq(Seq(STRING)), full : BOOLEAN]
Directory(c) ==
    /\ c \in Seq([name : Seq(STRING), type : STRING, disabled : BOOLEAN, vdir : BOOLEAN,
                 mark : TextFile, depends : TextFile])
    /\ \A j, k \in DOMAIN c : c[j].name = c[k].name => j = k

\* What has been linked for a guest: all for those behind, the lines that were read for
\* the one that is looked at.
NamedSoFar(f) ==
    IF f.kind = "regular" THEN {f.lines[j] : j \in {x \in DOMAIN f.lines : x < l}} \ {<<"#">>, << >>} ELSE {}
Linked(k) ==
    CASE k < g -> Wanted(k)
      [] k = g /\ pc = "mark" -> Marks(k, NamedSoFar(conf[k].mark))
      [] k = g /\ pc = "depends" ->
            Marks(k, Named(conf[k].mark)) \cup Dependencies(k, NamedSoFar(conf[k].depends))
      [] OTHER -> {}
Lost == UNION {Wanted(j) : j \in Guests \cap failed}

\* Line by line: what was linked stays, but for what a failed guest shares, and success
\* means that nothing was lost.
Inv ==
    /\ conf \in Configs /\ TypeOK /\ l \in Nat \ {0} /\ IsFiniteSet(units)
    /\ pc = "unitdir" => ~target
    /\ pc \in {"mark", "depends"} => g \in Guests /\ (res \/ g \in failed)
    /\ units \subseteq UNION {Wanted(k) : k \in Guests}
    /\ \A k \in Guests \ failed : Linked(k) \subseteq units \cup Lost /\ (rc => Linked(k) \subseteq units)
    /\ pc = "end" /\ (target \/ rc) => \A k \in DOMAIN conf : k < g \/ k \in failed
    /\ rc /\ steps = 0 => failed = {}
=============================================================================
