----------------------------- MODULE TextLists ------------------------------
(***************************************************************************)
(* Lists of flags and capabilities as text (lib/listparser.hc,             *)
(* val2text.hc and the tables of lib/): a list is parsed element by        *)
(* element into a value and a mask, and a value is printed name by name.   *)
(* A value is the set of the numbers of its bits.                          *)
(***************************************************************************)
EXTENDS Naturals, Sequences, SequencesExt, FiniteSets, FiniteSetsExt

CONSTANTS
    Kinds,      \* names of tables to look at
    Lists       \* lists of elements [not, form, id, bits] to parse

VARIABLES
    kind,   \* the kind of list,
    parser, \*   and how it is parsed
    job,    \* "parse", "print", "end" or "failed"
    todo,   \* the elements that are left
    done,   \* the elements that were parsed
    flag, mask,     \* the result of parsing; what is left to print
    start,  \* the value that is printed
    names   \* what was printed

vars == <<kind, parser, job, todo, done, flag, mask, start, names>>

-----------------------------------------------------------------------------
(* The tables, in the order in which they are searched.                    *)

cflags ==
    << <<"lock", {0}>>, <<"nproc", {2}>>, <<"private", {3}>>, <<"fakeinit", {4}>>,
      <<"hideinfo", {5}>>, <<"ulimit", {6}>>, <<"namespace", {7}>>, <<"sched_hard", {8}>>,
      <<"sched_prio", {9}>>, <<"sched_pause", {10}>>, <<"virt_mem", {16}>>,
      <<"virt_uptime", {17}>>, <<"virt_cpu", {18}>>, <<"virt_load", {19}>>,
      <<"virt_time", {20}>>, <<"hide_mount", {24}>>, <<"hide_netif", {25}>>,
      <<"hide_vinfo", {26}>>, <<"state_setup", {32}>>, <<"state_init", {33}>>,
      <<"state_admin", {34}>>, <<"sc_helper", {36}>>, <<"persistent", {38}>>,
      <<"reboot_kill", {37}>>, <<"fork_rss", {48}>>, <<"prolific", {49}>>,
      <<"igneg_nice", {52}>>, <<"igneg_ionice", {53}>>, <<"secure", {25}>>,
      <<"default", {17, 36}>>, <<"info_lock", {0}>>, <<"info_nproc", {2}>>,
      <<"info_private", {3}>>, <<"info_init", {4}>>, <<"info_hideinfo", {5}>>,
      <<"info_ulimit", {6}>>, <<"info_namespace", {7}>>, <<"info_nspace", {7}>> >>

bcaps ==
    << <<"CHOWN", {0}>>, <<"DAC_OVERRIDE", {1}>>, <<"DAC_READ_SEARCH", {2}>>, <<"FOWNER", {3}>>,
      <<"FSETID", {4}>>, <<"KILL", {5}>>, <<"SETGID", {6}>>, <<"SETUID", {7}>>,
      <<"SETPCAP", {8}>>, <<"LINUX_IMMUTABLE", {9}>>, <<"NET_BIND_SERVICE", {10}>>,
      <<"NET_BROADCAST", {11}>>, <<"NET_ADMIN", {12}>>, <<"NET_RAW", {13}>>,
      <<"IPC_LOCK", {14}>>, <<"IPC_OWNER", {15}>>, <<"SYS_MODULE", {16}>>,
      <<"SYS_RAWIO", {17}>>, <<"SYS_CHROOT", {18}>>, <<"SYS_PTRACE", {19}>>,
      <<"SYS_PACCT", {20}>>, <<"SYS_ADMIN", {21}>>, <<"SYS_BOOT", {22}>>, <<"SYS_NICE", {23}>>,
      <<"SYS_RESOURCE", {24}>>, <<"SYS_TIME", {25}>>, <<"SYS_TTY_CONFIG", {26}>>,
      <<"MKNOD", {27}>>, <<"LEASE", {28}>>, <<"AUDIT_WRITE", {29}>>, <<"AUDIT_CONTROL", {30}>>,
      <<"SETFCAP", {31}>>, <<"MAC_OVERRIDE", {32}>>, <<"MAC_ADMIN", {33}>> >>

ccaps ==
    << <<"set_utsname", {0}>>, <<"set_rlimit", {1}>>, <<"fs_security", {2}>>,
      <<"fs_trusted", {3}>>, <<"tiocsti", {4}>>, <<"raw_icmp", {8}>>, <<"syslog", {12}>>,
      <<"oom_adjust", {13}>>, <<"audit_control", {14}>>, <<"secure_mount", {16}>>,
      <<"secure_remount", {17}>>, <<"binary_mount", {18}>>, <<"dev_mount", {19}>>,
      <<"quota_ctl", {20}>>, <<"admin_mapper", {21}>>, <<"admin_cloop", {22}>>,
      <<"kthread", {24}>>, <<"namespace", {25}>>, <<"mount", {16}>>, <<"remount", {17}>>,
      <<"icmp", {8}>>, <<"ping", {8}>>, <<"utsname", {0}>>, <<"rlimit", {1}>> >>

nflags ==
    << <<"lock", {0}>>, <<"private", {3}>>, <<"single_ip", {8}>>, <<"lback_remap", {9}>>,
      <<"remap_lback", {9}>>, <<"lback_allow", {10}>>, <<"hide_netif", {25}>>,
      <<"hide_lback", {26}>>, <<"state_setup", {32}>>, <<"state_admin", {34}>>,
      <<"sc_helper", {36}>>, <<"persistent", {38}>>, <<"info_lock", {0}>>,
      <<"info_private", {3}>> >>

ncaps ==
    << <<"tun_create", {0}>>, <<"raw_icmp", {8}>> >>

umask ==
    << <<"fs", {9}>>, <<"newns", {17}>>, <<"newuts", {26}>>, <<"newipc", {27}>>,
      <<"newuser", {28}>>, <<"newpid", {29}>>, <<"newnet", {30}>> >>

personalityflags ==
    << <<"MMAP_PAGE_ZERO", {20}>>, <<"ADDR_LIMIT_32BIT", {23}>>, <<"SHORT_INODE", {24}>>,
      <<"WHOLE_SECONDS", {25}>>, <<"STICKY_TIMEOUTS", {26}>>, <<"ADDR_LIMIT_3GB", {27}>>,
      <<"UNAME26", {17}>> >>

\* S_CTX_INFO_* of the legacy interface
cflagsCompat ==
    << <<"lock", {0}>>, <<"sched", {1}>>, <<"nproc", {2}>>, <<"private", {3}>>, <<"fakeinit", {4}>>,
      <<"hideinfo", {5}>>, <<"ulimit", {6}>>, <<"namespace", {7}>> >>

(* The parsers of lists.  One with a mask knows negation, "all" and "none";  *)
(* names may be written with their prefix where removePrefix is called.      *)
vc_list2cflag == [table |-> cflags, masked |-> TRUE, prefixed |-> TRUE, numbers |-> TRUE]
vc_list2bcap == [table |-> bcaps, masked |-> TRUE, prefixed |-> TRUE, numbers |-> TRUE]
vc_list2ccap == [table |-> ccaps, masked |-> TRUE, prefixed |-> TRUE, numbers |-> TRUE]
vc_list2nflag == [table |-> nflags, masked |-> TRUE, prefixed |-> TRUE, numbers |-> TRUE]
vc_list2ncap == [table |-> ncaps, masked |-> TRUE, prefixed |-> TRUE, numbers |-> TRUE]
vc_list2umask == [table |-> umask, masked |-> TRUE, prefixed |-> FALSE, numbers |-> TRUE]
vc_list2personalityflag == [table |-> personalityflags, masked |-> FALSE, prefixed |-> FALSE, numbers |-> TRUE]
\* a loop of its own, without numbers
vc_list2cflag_compat == [table |-> cflagsCompat, masked |-> FALSE, prefixed |-> FALSE, numbers |-> FALSE]

Parsers == [cflag |-> vc_list2cflag, bcap |-> vc_list2bcap, ccap |-> vc_list2ccap, nflag |-> vc_list2nflag,
            ncap |-> vc_list2ncap, umask |-> vc_list2umask, personality |-> vc_list2personalityflag,
            compat |-> vc_list2cflag_compat]

VALUES == parser.table
Masked == parser.masked

AllBits == 0 .. 63

\* An element of a list: the number of its "!" and "~", how it is written, the name,
\* and the bits of a number.
Element == [not : Nat, form : STRING, id : STRING, bits : SUBSET AllBits]

-----------------------------------------------------------------------------
(* Parsing.                                                                *)

\* utilvserver_value2text: the index of a name, or 0
value2text(id) ==
    LET is == {i \in DOMAIN VALUES : VALUES[i][1] = id} IN IF is = {} THEN 0 ELSE Min(is)

\* vc_text2*: the value of a name, {} when there is none; case does not matter
text2flag(e) ==
    IF e.form = "name" \/ (e.form = "prefixed" /\ parser.prefixed)
    THEN IF value2text(e.id) = 0 THEN {} ELSE VALUES[value2text(e.id)][2]
    ELSE {}

\* isNumber: a number, or ^ and the number of a bit; the compat list takes none
IsNumber(e) == e.form = "number" /\ parser.numbers

IsNeg(e) == Masked /\ e.not % 2 = 1

\* What an element stands for, and whether it is understood.  A prefix of "all",
\* "any" or "none" is taken for the word.
Meaning(e) ==
    CASE e.form = "empty" -> [failed |-> TRUE, bits |-> {}]
      [] ~Masked /\ e.not > 0 -> [failed |-> TRUE, bits |-> {}]
      [] Masked /\ e.form = "all" -> [failed |-> FALSE, bits |-> AllBits]
      [] Masked /\ e.form = "none" -> [failed |-> FALSE, bits |-> {}]
      [] IsNumber(e) -> [failed |-> FALSE, bits |-> e.bits]
      [] OTHER -> [failed |-> text2flag(e) = {}, bits |-> text2flag(e)]

NewMask(e, bits) == IF Masked THEN mask \cup bits ELSE mask

\* len = 0: nothing is left, or nothing behind the last comma
Over == todo \in {<< >>, <<[not |-> 0, form |-> "empty", id |-> "", bits |-> {}]>>}

\* utilvserver_listparser, vc_list2cflag_compat: one element
listparser ==
    /\ job = "parse" /\ ~Over
    /\ LET e == Head(todo)
           m == Meaning(e)
       IN  /\ todo' = Tail(todo)
           /\ IF m.failed THEN job' = "failed" /\ UNCHANGED <<flag, mask, done>>
              ELSE /\ flag' = (IF IsNeg(e) THEN flag \ m.bits ELSE flag \cup m.bits)
                   /\ mask' = NewMask(e, m.bits)
                   /\ done' = Append(done, e) /\ UNCHANGED job
    /\ UNCHANGED <<kind, parser, start, names>>

listEnds ==
    /\ job = "parse" /\ Over /\ job' = "end"
    /\ UNCHANGED <<kind, parser, todo, done, flag, mask, start, names>>

-----------------------------------------------------------------------------
(* Printing.                                                               *)

searchValue(v) == LET is == {i \in DOMAIN VALUES : VALUES[i][2] = v} IN IF is = {} THEN 0 ELSE Min(is)

\* utilvserver_text2value: the whole value when it has a name, else the lowest bit
Chosen(v) == IF searchValue(v) # 0 THEN v ELSE {Min(v)}

\* vc_hicflag2text_compat begins with the highest bit and does not know namespace
CompatChosen(v) == IF v \cap 0 .. 6 = {} THEN {} ELSE {Max(v \cap 0 .. 6)}

\* vc_lo*2text, until it finds no name
text2value ==
    /\ job = "print"
    /\ LET c == IF flag = {} THEN {} ELSE IF kind = "compat" THEN CompatChosen(flag) ELSE Chosen(flag)
           i == IF c = {} THEN 0 ELSE searchValue(c)
       IN  IF i = 0 THEN job' = "end" /\ UNCHANGED <<flag, names>>
           ELSE flag' = flag \ c /\ names' = Append(names, VALUES[i][1]) /\ UNCHANGED job
    /\ UNCHANGED <<kind, parser, todo, done, mask, start>>

-----------------------------------------------------------------------------
KnownBits == UNION {VALUES[i][2] : i \in DOMAIN VALUES}

\* The values to print: up to two bits, one of which may have no name, and all.
Printed == {{a, b} : a, b \in KnownBits \cup {63}} \cup {KnownBits, {}}

Init ==
    /\ kind \in Kinds /\ parser = Parsers[kind] /\ names = << >> /\ done = << >> /\ mask = {}
    /\ \/ /\ job = "parse" /\ todo \in Lists /\ flag = {} /\ start = {}
       \/ /\ job = "print" /\ todo = << >>
          /\ start \in Printed
          /\ flag = start

Next == listparser \/ listEnds \/ text2value
Spec == Init /\ [][Next]_vars

-----------------------------------------------------------------------------
\* The variables have their types.
TypeOK ==
    /\ job \in {"parse", "print", "end", "failed"}
    /\ flag \subseteq AllBits /\ mask \subseteq AllBits
    /\ \A i \in DOMAIN names : value2text(names[i]) # 0

\* The last element that names a bit says what it is, and a bit is in the mask
\* exactly when an element names it.
LastWins ==
    start = {} /\ names = << >> =>
        \A b \in AllBits :
            LET says == {i \in DOMAIN done : b \in Meaning(done[i]).bits}
            IN  /\ (b \in flag) <=> (says # {} /\ ~(Masked /\ done[Max(says)].not % 2 = 1))
                /\ Masked => ((b \in mask) <=> says # {})

\* What the names that were printed are read as.
Read == UNION {VALUES[value2text(names[i])][2] : i \in DOMAIN names}

\* What is printed reads as the value that was printed, up to the bits from the
\* first one on that has no name; the compat list leaves namespace out.
Readable ==
    start # {} /\ job = "end" =>
        /\ Read = start \ flag
        /\ IF kind = "compat" THEN flag \subseteq {7, 63} ELSE flag # {} => Min(flag) \notin KnownBits

\* A value with a name of its own is printed as that name.
ShortestName ==
    start # {} /\ job = "end" /\ kind # "compat" /\ searchValue(start) # 0 => Len(names) = 1

\* While a list is parsed nothing is printed; while a value is printed, what was
\* printed and what is left make it up, and a value with a name goes at once.
Inv ==
    /\ kind \in DOMAIN Parsers /\ parser = Parsers[kind]
    /\ todo \in Seq(Element) /\ done \in Seq(Element)
    /\ names \in Seq({VALUES[i][1] : i \in DOMAIN VALUES})
    /\ job \in {"parse", "failed"} \/ start = {} => start = {} /\ names = << >>
    /\ job = "print" /\ start = {} => flag = {}
    /\ start # {} => flag \subseteq start /\ start \subseteq KnownBits \cup {63} /\ Read = start \ flag
    /\ start # {} /\ kind # "compat" /\ searchValue(start) # 0 =>
          (names = << >> /\ flag = start) \/ (Len(names) = 1 /\ flag = {})
    /\ TypeOK /\ LastWins /\ Readable /\ ShortestName
=============================================================================
