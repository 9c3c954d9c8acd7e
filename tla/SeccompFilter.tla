---------------------------- MODULE SeccompFilter ----------------------------
(***************************************************************************)
(* The seccomp filter of a launch on Linux, as the program it is           *)
(* (apply_seccomp in lianyaohu-core/src/linux_sandbox.rs): instructions    *)
(* with relative jumps, some counted by hand, some patched in when the     *)
(* length of what they skip is known.                                      *)
(***************************************************************************)
EXTENDS Naturals, Sequences, SequencesExt

\* A call is its machine, number, and first two arguments.  Numbers of calls
\* are positions in a list, those the filter denies first.
DeniedSyscalls ==
  <<"bind", "listen", "accept", "accept4", "mount", "umount2", "pivot_root",
    "chroot", "unshare", "setns", "ptrace", "process_vm_readv",
    "process_vm_writev", "perf_event_open", "bpf", "userfaultfd",
    "io_uring_setup", "open_by_handle_at", "keyctl", "add_key", "request_key",
    "reboot", "acct", "syslog", "personality", "init_module",
    "finit_module", "delete_module", "_sysctl">>
Syscalls == DeniedSyscalls \o <<"socket", "connect", "openat">>
SysSocket == Len(DeniedSyscalls) + 1

AuditArch == 1
ForeignArch == 2
AfUnix == 1
AfInet == 2
AfInet6 == 10
AfNetlink == 16
AfPacket == 17
SockStream == 1
SockDgram == 2
SockRaw == 3
SockSeqpacket == 5
SockCloexec == 16 * 32768
TypeMask == 16

-----------------------------------------------------------------------------
Load(field) == [do |-> "load", field |-> field]
IfEqual(k, jt, jf) == [do |-> "jump", k |-> k, jt |-> jt, jf |-> jf]
Masked == [do |-> "mask"]
Return(verdict) == [do |-> "return", verdict |-> verdict]

\* deny_syscall
DenySyscall(nr) == <<IfEqual(nr, 0, 1), Return("EPERM")>>

\* allow_stream_or_datagram_socket
StreamOrDatagram ==
  <<Load("arg1"), Masked, IfEqual(SockStream, 0, 1), Return("allow"),
    IfEqual(SockDgram, 0, 1), Return("allow"), Return("EPERM")>>

\* A mistake to catch: the count misses the masking.
TypeCheckTooShort == 6

\* socket_type_check_len: how much of it the hand-counted jumps skip.
SocketTypeCheckLen == 7

\* restrict_socket_syscall; the first jump skips all the rest.
RestrictSocket ==
  LET checks ==
        <<Load("arg0"), IfEqual(AfUnix, 0, 1), Return("allow"),
          IfEqual(AfInet, 0, SocketTypeCheckLen)>> \o StreamOrDatagram
          \o <<IfEqual(AfInet6, 0, SocketTypeCheckLen)>> \o StreamOrDatagram
          \o <<Return("EPERM")>>
  IN <<IfEqual(SysSocket, 0, Len(checks))>> \o checks

\* apply_seccomp
Filter ==
  <<Load("arch"), IfEqual(AuditArch, 1, 0), Return("kill"), Load("nr")>>
    \o FlattenSeq([nr \in DOMAIN DeniedSyscalls |-> DenySyscall(nr)])
    \o RestrictSocket \o <<Return("allow")>>

-----------------------------------------------------------------------------
\* The kernel's interpreter: what a call gets from the instruction it stands
\* at and the accumulator on.
Verdict(program, call) ==
  LET from[at \in DOMAIN program] ==
        LET i == program[at] IN
        [acc \in Nat |->
           CASE i.do = "return" -> i.verdict
             [] i.do = "load" -> from[at + 1][call[i.field]]
             [] i.do = "mask" -> from[at + 1][acc % TypeMask]
             [] OTHER -> from[at + 1 + (IF acc = i.k THEN i.jt ELSE i.jf)][acc]]
  IN from[1][0]

Calls ==
  [arch : {AuditArch, ForeignArch}, nr : DOMAIN Syscalls,
   arg0 : {AfUnix, AfInet, AfInet6, AfNetlink, AfPacket},
   arg1 : {t + f : t \in {SockStream, SockDgram, SockRaw, SockSeqpacket},
                   f \in {0, SockCloexec}}]

\* What the filter is for: no listening, no kernel interfaces, and of sockets
\* only local ones and the streams and datagrams the firewall rules see.
Wanted(call) ==
  IF call.arch # AuditArch THEN "kill"
  ELSE IF call.nr \in DOMAIN DeniedSyscalls THEN "EPERM"
  ELSE IF \/ call.nr # SysSocket
          \/ call.arg0 = AfUnix
          \/ /\ call.arg0 \in {AfInet, AfInet6}
             /\ call.arg1 \in {t + f : t \in {SockStream, SockDgram}, f \in {0, SockCloexec}}
       THEN "allow" ELSE "EPERM"

FilterIsExact == \A call \in Calls : Verdict(Filter, call) = Wanted(call)
=============================================================================
