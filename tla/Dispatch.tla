------------------------------ MODULE Dispatch ------------------------------
(***************************************************************************)
(* libvserver in front of the kernel: every function of the library exists *)
(* in several versions, and chooses one by the version and configuration   *)
(* of the kernel, which it asks for once and keeps (lib/syscall_*.c,       *)
(* vserver-internal.h, checkversion.c); vc_isSupported answers from its    *)
(* own table; the python module hands calls and failures through.          *)
(***************************************************************************)
EXTENDS Naturals, Sequences, SequencesExt, FiniteSets, FiniteSetsExt

CONSTANTS
    Kernels,    \* [ver, conf]: the version, 0 for a kernel without vc_get_version,
                \* and the set of configuration bits
    MaxCalls    \* calls of one process

VARIABLES
    kernel, \* the kernel
    lib,    \* the functions of the library and of the python module; they do not change
    cached, \* res of utilvserver_checkCompatVersion: 0 (not set), a version, or Failed
    kept,   \* its v_errno
    errno,
    call,   \* the last call: [name, via, null], or "none"
    chosen, \* the version of the function that was called, or "none"
    result, \* of the last call: whether it failed, and what the caller gets
    calls

Failed == 1     \* stands for -1

vars == <<kernel, lib, cached, kept, errno, call, chosen, result, calls>>

-----------------------------------------------------------------------------
(* The functions: their versions in the order in which they are tried,     *)
(* whether the version is asked for at all (VC_MULTIVERSION_SYSCALL), and  *)
(* whether a null pointer is refused.                                      *)

Several(s) == [tries |-> s, multi |-> TRUE, checks |-> FALSE]
Only(v)    == [tries |-> <<v>>, multi |-> FALSE, checks |-> FALSE]
First(s)   == [tries |-> s, multi |-> FALSE, checks |-> FALSE]
Checked(w) == [w EXCEPT !.checks = TRUE]

vc_new_s_context == Several(<<"compat", "legacy">>)
vc_add_dlimit == Only("v13b")
vc_cleanup_namespace == Only("v13")
vc_ctx_create == Several(<<"v21", "v13a">>)
vc_ctx_migrate == Several(<<"spaces", "v13a">>)
vc_ctx_stat == Only("v21")
vc_enter_namespace == Several(<<"v23p", "spaces", "v13">>)
vc_fget_iattr == Only("v22")
vc_fset_iattr == Only("v22")
vc_get_badness == Only("v23")
vc_get_ccaps == Checked(Several(<<"v21", "v13a">>))
vc_get_cflags == Only("v13a")
vc_get_dlimit == Only("v13b")
vc_get_iattr == Checked(Several(<<"v13", "fscompat">>))
vc_get_ncaps == Checked(Only("net"))
vc_get_nflags == Checked(Only("net"))
vc_get_nx_info == Checked(Only("net"))
vc_get_sched == Only("v21")
vc_get_space_default == Only("v23p")
vc_get_space_mask == Several(<<"v23p", "spaces">>)
vc_get_task_nid == Only("net")
vc_get_task_xid == Several(<<"v13", "oldproc">>)
vc_get_umask == Checked(Only("v23"))
vc_get_vci == Only("v21")
vc_get_vhi_name == Several(<<"v13", "olduts">>)
vc_get_vx_info == Checked(Several(<<"v13", "oldproc">>))
vc_ctx_kill == First(<<"v11", "v13">>)
vc_net_add == Checked(Several(<<"netv2", "net">>))
vc_net_create == Only("net")
vc_net_migrate == Only("net")
vc_net_remove == Checked(Several(<<"netv2", "net">>))
vc_rem_dlimit == Only("v13b")
vc_reset_minmax == Only("v21")
vc_get_rlimit == First(<<"v11", "v13">>)
vc_rlimit_stat == Only("v21")
vc_sched_info == Only("v21")
vc_set_badness == Only("v23")
vc_set_ccaps == Checked(Several(<<"v21", "v13a">>))
vc_set_cflags == Checked(Only("v13a"))
vc_set_dlimit == Only("v13b")
vc_set_iattr == Several(<<"v13", "fscompat">>)
vc_set_mapping == Only("v21")
vc_set_namespace == Several(<<"v23p", "spaces", "v13">>)
vc_set_ncaps == Checked(Only("net"))
vc_set_nflags == Checked(Only("net"))

vc_set_sched == Several(<<"v22", "v21", "v13b", "v13obs">>)
vc_set_umask == Checked(Only("v23"))
vc_set_vhi_name == Several(<<"v13", "olduts">>)
vc_tag_create == Only("tag")
vc_tag_migrate == Only("tag")
vc_get_task_tag == Only("tag")
vc_unset_mapping == Only("v21")
vc_virt_stat == Only("v21")

vc_wait_exit == Only("v13b")

Library ==
    [vc_new_s_context |-> vc_new_s_context, vc_add_dlimit |-> vc_add_dlimit,
     vc_cleanup_namespace |-> vc_cleanup_namespace, vc_ctx_create |-> vc_ctx_create,
     vc_ctx_migrate |-> vc_ctx_migrate, vc_ctx_stat |-> vc_ctx_stat,
     vc_enter_namespace |-> vc_enter_namespace, vc_fget_iattr |-> vc_fget_iattr,
     vc_fset_iattr |-> vc_fset_iattr, vc_get_badness |-> vc_get_badness,
     vc_get_ccaps |-> vc_get_ccaps, vc_get_cflags |-> vc_get_cflags,
     vc_get_dlimit |-> vc_get_dlimit, vc_get_iattr |-> vc_get_iattr,
     vc_get_ncaps |-> vc_get_ncaps, vc_get_nflags |-> vc_get_nflags,
     vc_get_nx_info |-> vc_get_nx_info, vc_get_sched |-> vc_get_sched,
     vc_get_space_default |-> vc_get_space_default, vc_get_space_mask |-> vc_get_space_mask,
     vc_get_task_nid |-> vc_get_task_nid, vc_get_task_xid |-> vc_get_task_xid,
     vc_get_umask |-> vc_get_umask, vc_get_vci |-> vc_get_vci,
     vc_get_vhi_name |-> vc_get_vhi_name, vc_get_vx_info |-> vc_get_vx_info,
     vc_ctx_kill |-> vc_ctx_kill, vc_net_add |-> vc_net_add, vc_net_create |-> vc_net_create,
     vc_net_migrate |-> vc_net_migrate, vc_net_remove |-> vc_net_remove,
     vc_rem_dlimit |-> vc_rem_dlimit, vc_reset_minmax |-> vc_reset_minmax,
     vc_get_rlimit |-> vc_get_rlimit, vc_rlimit_stat |-> vc_rlimit_stat,
     vc_sched_info |-> vc_sched_info, vc_set_badness |-> vc_set_badness,
     vc_set_ccaps |-> vc_set_ccaps, vc_set_cflags |-> vc_set_cflags,
     vc_set_dlimit |-> vc_set_dlimit, vc_set_iattr |-> vc_set_iattr,
     vc_set_mapping |-> vc_set_mapping, vc_set_namespace |-> vc_set_namespace,
     vc_set_ncaps |-> vc_set_ncaps, vc_set_nflags |-> vc_set_nflags,
     vc_set_sched |-> vc_set_sched, vc_set_umask |-> vc_set_umask,
     vc_set_vhi_name |-> vc_set_vhi_name, vc_tag_create |-> vc_tag_create,
     vc_tag_migrate |-> vc_tag_migrate, vc_get_task_tag |-> vc_get_task_tag,
     vc_unset_mapping |-> vc_unset_mapping, vc_virt_stat |-> vc_virt_stat,
     vc_wait_exit |-> vc_wait_exit]
Functions == lib.c

-----------------------------------------------------------------------------
(* The choice.                                                             *)

Bit == [spaces |-> "SPACES", tag |-> "PPTAG", netv2 |-> "NETV2"]

\* VC_SELECT: the version from which on each is chosen
Since ==
    [legacy |-> 0, oldproc |-> 0, olduts |-> 0, compat |-> \h10000, v11 |-> \h10000,
     fscompat |-> \h10000, v13 |-> \h10011, v13obs |-> \h10011, v13a |-> \h10012,
     net |-> \h10016, v13b |-> \h10021, v21 |-> \h20100, v22 |-> \h20200,
     v23 |-> \h20300, v23p |-> \h20304]

\* VC_SELECT and VC_CBIT
Selected(v, ver, conf) ==
    IF v \in DOMAIN Bit THEN Bit[v] \in conf ELSE ver >= Since[v]

\* The system calls of a kernel are those of its version and configuration.
Has(v) == Selected(v, kernel.ver, kernel.conf)

\* Fault: the version is not looked at.
CALL_VC_First(f, ver) == Head(f.tries)

\* CALL_VC: the first one that fits
CALL_VC(f, ver) ==
    LET fits == {i \in DOMAIN f.tries : ~f.multi \/ Selected(f.tries[i], ver, kernel.conf)}
    IN  IF fits = {} THEN "none" ELSE f.tries[Min(fits)]

\* vc_isSupported
isSupported(f) ==
    CASE f = "VSHELPER0"  -> kernel.ver >= \h10000 /\ kernel.ver < \h10010
      [] f = "VSHELPER"   -> kernel.ver >= \h10000
      [] f = "VKILL"      -> kernel.ver >= \h10004
      [] f = "RLIMIT"     -> kernel.ver >= \h10004
      [] f = "VINFO"      -> kernel.ver >= \h10010
      [] f = "VHI"        -> kernel.ver >= \h10010
      [] f = "IATTR"      -> kernel.ver >= \h10011
      [] f = "MIGRATE"    -> kernel.ver >= \h10012
      [] f = "NAMESPACE"  -> kernel.ver >= \h10012
      [] f = "VWAIT"      -> kernel.ver >= \h10025
      [] f = "SCHED"      -> kernel.ver >= \h20000
      [] f = "VNET"       -> kernel.ver >= \h20001
      [] f = "PERSISTENT" -> kernel.ver >= \h20002
      [] f = "VSTAT"      -> kernel.ver >= \h20103 /\ kernel.ver < \h20306
      [] f = "PPTAG"      -> "PPTAG" \in kernel.conf
      [] f = "SPACES"     -> "SPACES" \in kernel.conf
      [] f = "PIVOT_ROOT" -> kernel.ver >= \h20304
      [] f = "PIDSPACE"   -> FALSE
      [] f = "MEMCG"      -> kernel.ver >= \h20306 /\ "MEMCG" \in kernel.conf
      [] f = "DYNAMIC"    -> kernel.ver < \h20300 \/ "NO_DYNAMIC" \notin kernel.conf

\* What the tools call after they have found a feature.
Uses ==
    {<<"MIGRATE", "vc_ctx_migrate">>, <<"MIGRATE", "vc_ctx_create">>, <<"MIGRATE", "vc_get_cflags">>,
     <<"VWAIT", "vc_wait_exit">>, <<"VINFO", "vc_get_vx_info">>, <<"VHI", "vc_get_vhi_name">>,
     <<"VSTAT", "vc_virt_stat">>, <<"VSTAT", "vc_rlimit_stat">>, <<"VSTAT", "vc_ctx_stat">>,
     <<"PPTAG", "vc_tag_migrate">>, <<"VKILL", "vc_ctx_kill">>, <<"RLIMIT", "vc_get_rlimit">>,
     <<"IATTR", "vc_get_iattr">>, <<"NAMESPACE", "vc_enter_namespace">>, <<"VNET", "vc_net_create">>,
     <<"SCHED", "vc_set_sched">>, <<"SPACES", "vc_get_space_mask">>}

-----------------------------------------------------------------------------
(* The python module: the functions, and what becomes of a failure.        *)

Raise(S) == [m \in S |-> "raised"]
Merge(a, b) == [m \in DOMAIN a \cup DOMAIN b |-> IF m \in DOMAIN b THEN b[m] ELSE a[m]]

pyContexts == Raise({"vc_get_vci", "vc_ctx_create", "vc_ctx_migrate", "vc_ctx_stat", "vc_virt_stat",
                     "vc_ctx_kill", "vc_get_cflags", "vc_set_cflags"})
pyInfo == Merge(Raise({"vc_get_ccaps", "vc_set_ccaps", "vc_get_vx_info", "vc_get_task_xid", "vc_get_rlimit",
                       "vc_rlimit_stat"}), [vc_wait_exit |-> "false"])
pyNet == Raise({"vc_reset_minmax", "vc_get_task_nid", "vc_get_nx_info", "vc_net_create", "vc_net_migrate",
                "vc_net_add", "vc_net_remove", "vc_get_nflags"})
pyAttributes == Raise({"vc_set_nflags", "vc_get_ncaps", "vc_set_ncaps", "vc_set_iattr", "vc_fset_iattr",
                       "vc_get_iattr", "vc_fget_iattr", "vc_set_vhi_name", "vc_get_vhi_name"})

\* vc_get_space_mask and vc_get_space_default are not asked whether they failed.
pySpaces == Merge(Raise({"vc_enter_namespace", "vc_set_namespace", "vc_add_dlimit", "vc_rem_dlimit",
                         "vc_set_dlimit", "vc_get_dlimit", "vc_get_task_tag"}),
                  [m \in {"vc_get_space_mask", "vc_get_space_default"} |-> "value"])
pyScheduling == Raise({"vc_tag_create", "vc_tag_migrate", "vc_set_sched", "vc_get_sched", "vc_sched_info",
                       "vc_set_mapping", "vc_unset_mapping", "vc_get_badness", "vc_set_badness"})

python == Merge(pyContexts, Merge(pyInfo, Merge(pyNet, Merge(pyAttributes, Merge(pySpaces, pyScheduling)))))

pyResult(m, failed) == IF failed THEN lib.python[m] ELSE "value"

-----------------------------------------------------------------------------
(* A call.                                                                 *)

Init ==
    /\ kernel \in Kernels /\ lib = [c |-> Library, python |-> python] /\ cached = 0 /\ kept = "none" /\ errno = "none"
    /\ call = [name |-> "none", via |-> "C", null |-> FALSE]
    /\ chosen = "none" /\ result = [failed |-> FALSE, shown |-> "value"] /\ calls = 0

\* utilvserver_checkCompatVersion.  A kernel without the call is a legacy kernel,
\* and is asked again; any other failure is kept.
checkCompatVersion ==
    \/ cached # 0 /\ cached' = cached /\ kept' = kept
    \/ cached = 0 /\ cached' = kernel.ver /\ kept' = (IF kernel.ver = 0 THEN "ENOSYS" ELSE errno)
    \/ cached = 0 /\ cached' = Failed /\ kept' = "EPERM"

\* The system call: what the kernel does not have it refuses.
KernelAnswers(v) ==
    \/ ~Has(v) /\ result'.failed /\ errno' = "ENOSYS"
    \/ Has(v) /\ result'.failed /\ errno' = "ESRCH"
    \/ Has(v) /\ ~result'.failed /\ errno' \in {errno, kept'}

Result(c, failed) == [failed |-> failed, shown |-> IF c.via = "C" THEN "value" ELSE pyResult(c.name, failed)]

\* A function of the library, called by a tool or by the python module.
Call(n, via, null) ==
    LET f == Functions[n]
        c == [name |-> n, via |-> via, null |-> null]
    IN  /\ calls < MaxCalls /\ calls' = calls + 1
        /\ via = "python" => n \in DOMAIN lib.python /\ ~null
        /\ null => f.checks
        /\ call' = c
        /\ \E failed \in BOOLEAN : result' = Result(c, failed)
        /\ \/ null /\ chosen' = "none" /\ result'.failed /\ errno' = "EFAULT" /\ UNCHANGED <<cached, kept>>
           \/ /\ ~null
              /\ IF f.multi THEN checkCompatVersion ELSE UNCHANGED <<cached, kept>>
              /\ chosen' = (IF f.multi /\ cached' = Failed THEN "none" ELSE CALL_VC(f, cached'))
              /\ IF f.multi /\ cached' = Failed THEN result'.failed /\ errno' = kept'
                 ELSE IF chosen' = "none" THEN result'.failed /\ errno' = "ENOSYS"
                 ELSE KernelAnswers(chosen')
        /\ UNCHANGED <<kernel, lib>>

Next == \E n \in DOMAIN Functions, via \in {"C", "python"}, null \in BOOLEAN : Call(n, via, null)

Spec == Init /\ [][Next]_vars

-----------------------------------------------------------------------------
\* The variables have their types.
TypeOK ==
    /\ cached \in {0, Failed, kernel.ver}
    /\ call.name \in DOMAIN Functions \cup {"none"} /\ chosen \in DOMAIN Since \cup DOMAIN Bit \cup {"none"}
    /\ result.shown \in {"value", "raised", "false"}

Known == call.name # "none" /\ ~call.null /\ ~(Functions[call.name].multi /\ cached = Failed)

\* When the versions came; a configuration bit is from the time of its option.
Age(v) == CASE v = "spaces" -> \h20200 [] v \in {"tag", "netv2"} -> \h20302 [] OTHER -> Since[v]

\* Of the versions the kernel has, the newest one is called; of those that are the
\* same call, the first.
NewestOne ==
    Known /\ chosen # "none" /\ Functions[call.name].multi =>
        Has(chosen) /\ \A v \in ToSet(Functions[call.name].tries) : Has(v) => Age(v) <= Age(chosen)

\* A function fails with ENOSYS exactly when the kernel has none of its versions.
EnosysIffMissing ==
    Known => ((result.failed /\ errno = "ENOSYS") <=> ~\E v \in ToSet(Functions[call.name].tries) : Has(v))

\* What vc_isSupported says is there can be called, unless the first look at the
\* version failed: vc_isSupported looks again, the functions do not.
SupportedIsCallable ==
    \A u \in Uses : call.name = u[2] /\ Known /\ isSupported(u[1]) => ~(result.failed /\ errno = "ENOSYS")

\* A failure is seen in python, but for the two masks, which are all bits then.
FailureIsSeen ==
    result.failed /\ call.via = "python" /\ result.shown = "value" =>
        call.name \in {"vc_get_space_mask", "vc_get_space_default"}

\* What every call leaves true of itself, and the tables that it went by.
Inv ==
    /\ kernel \in Kernels /\ lib = [c |-> Library, python |-> python]
    /\ TypeOK /\ NewestOne /\ EnosysIffMissing /\ SupportedIsCallable /\ FailureIsSeen
=============================================================================
