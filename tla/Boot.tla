-------------------------------- MODULE Boot --------------------------------
(***************************************************************************)
(* threads/init.c after the machine is set up: options and actions of the  *)
(* kernel command line, the block devices and how the machine stops.  A    *)
(* command line is written as options and actions with their arguments;    *)
(* the code sees the words.  An option is a record, other words are        *)
(* strings.                                                                *)
(***************************************************************************)
EXTENDS Naturals, Sequences, SequencesExt

CONSTANTS Options,       \* options there are: [name, value], value NULL without a `='
          Written,       \* actions there are: sequences of words
          Trailing,      \* what may follow the last action: words that are not one
          MaxOptions, MaxActions,
          DiskLists,     \* what the probe may find: sequences of [name, type]
          Clock,         \* rtc_get_time ()
          NULL

VARIABLES asked,         \* the command line as written: [options, actions, rest]
          disks,         \* the block devices in probe order
          argv,          \* the words not yet looked at
          pc,            \* "options", "devices", "filesys", "actions", "panic", or stopped
          how,           \* shutdown type
          seed,          \* of the random number generator
          format,        \* format_filesys
          bdev_name,     \* names given for the roles, or NULL
          role,          \* the devices in the roles, or NULL
          executed       \* the actions begun, with their arguments
bootVars == <<asked, disks, argv, pc, how, seed, format, bdev_name, role, executed>>

SeqsUpTo(S, n) == UNION {[1 .. k -> S] : k \in 0 .. n}
Roles == {"filesys", "scratch", "swap"}

BootInit ==
  /\ \E os \in SeqsUpTo(Options, MaxOptions), as \in SeqsUpTo(Written, MaxActions), rest \in Trailing :
       LET words == FlattenSeq(as) \o rest
       IN /\ asked = [options |-> os, actions |-> as, rest |-> rest]
          /\ argv = os \o [k \in 1 .. Len(words) |-> [word |-> words[k]]]
  /\ disks \in DiskLists
  /\ pc = "options" /\ how = "none" /\ seed = "unset" /\ format = FALSE
  /\ bdev_name = [r \in Roles |-> NULL] /\ role = [r \in Roles |-> NULL] /\ executed = <<>>

IsOption == argv # <<>> /\ "name" \in DOMAIN argv[1]
Word(k) == argv[k].word
random_init(x) == seed' = x

RoleNamed == [n \in {"-filesys", "-scratch", "-swap"} |->
               CASE n = "-filesys" -> "filesys" [] n = "-scratch" -> "scratch" [] n = "-swap" -> "swap"]
\* -mlfqs and -ul are for other parts; -ul and -rs read a number: atoi (NULL)
\* fails an assertion.
Known == {"-h", "-q", "-r", "-f", "-rs", "-mlfqs", "-ul"} \cup DOMAIN RoleNamed
Wrong(o) == o.name \notin Known \/ (o.name \in {"-rs", "-ul"} /\ o.value = NULL)

\* One option.
parse_option ==
  /\ pc = "options" /\ IsOption /\ argv' = Tail(argv)
  /\ LET o == argv[1]
     IN \/ Wrong(o) /\ pc' = "panic" /\ UNCHANGED <<how, seed, format, bdev_name>>
        \/ o.name = "-h" /\ pc' = "off" /\ UNCHANGED <<how, seed, format, bdev_name>>      \* usage ()
        \/ o.name = "-q" /\ how' = "off" /\ UNCHANGED <<pc, seed, format, bdev_name>>
        \/ o.name = "-r" /\ how' = "reboot" /\ UNCHANGED <<pc, seed, format, bdev_name>>
        \/ o.name = "-f" /\ format' = TRUE /\ UNCHANGED <<pc, how, seed, bdev_name>>
        \/ o.name = "-rs" /\ ~Wrong(o) /\ random_init(o.value) /\ UNCHANGED <<pc, how, format, bdev_name>>
        \/ /\ o.name \in DOMAIN RoleNamed /\ bdev_name' = [bdev_name EXCEPT ![RoleNamed[o.name]] = o.value]
           /\ UNCHANGED <<pc, how, seed, format>>
        \/ o.name \in {"-mlfqs", "-ul"} /\ ~Wrong(o) /\ UNCHANGED <<pc, how, seed, format, bdev_name>>
  /\ UNCHANGED <<asked, disks, role, executed>>

\* The end of parse_options: the clock is the seed, whatever -rs said.
EndOptions ==
  /\ pc = "options" /\ ~IsOption /\ pc' = "devices"
  /\ random_init(Clock)
  /\ UNCHANGED <<asked, disks, argv, how, format, bdev_name, role, executed>>

\* locate_block_device: by its name, or the first of the role's type.
Located(r) ==
  LET wanted == IF bdev_name[r] # NULL
                THEN SelectSeq(disks, LAMBDA d : d.name = bdev_name[r])
                ELSE SelectSeq(disks, LAMBDA d : d.type = r)
  IN IF wanted = <<>> THEN NULL ELSE wanted[1].name

locate_block_devices ==
  /\ pc = "devices"
  /\ IF \E r \in Roles : bdev_name[r] # NULL /\ Located(r) = NULL
     THEN pc' = "panic" /\ UNCHANGED role
     ELSE pc' = "filesys" /\ role' = [r \in Roles |-> Located(r)]
  /\ UNCHANGED <<asked, disks, argv, how, seed, format, bdev_name, executed>>

\* Mutant: the file system is used without a device.
DevicesThereNot == TRUE

DevicesThere == role.filesys # NULL /\ role.swap # NULL

\* filesys_init and vm_swap_init; both may also panic for lack of memory, and
\* formatting for lack of space.
filesys_init ==
  /\ pc = "filesys"
  /\ pc' = "panic" \/ (DevicesThere /\ pc' = "actions")
  /\ UNCHANGED <<asked, disks, argv, how, seed, format, bdev_name, role, executed>>

\* Words of an action, its name included; 0 for no action.
argcOf(name) == CASE name \in {"run", "cat", "rm", "append"} -> 2 [] name \in {"ls", "extract"} -> 1 [] OTHER -> 0

\* One action.  fsutil.c's panic if a file, the archive or memory is missing,
\* or the scratch device.
run_action ==
  /\ pc = "actions" /\ argv # <<>>
  /\ LET name == Word(1)
     IN \/ (argcOf(name) = 0 \/ Len(argv) < argcOf(name)) /\ pc' = "panic" /\ UNCHANGED <<argv, executed>>
        \/ /\ argcOf(name) \in 1 .. Len(argv)
           /\ executed' = Append(executed, [k \in 1 .. argcOf(name) |-> Word(k)])
           /\ \/ name # "run" /\ pc' = "panic" /\ UNCHANGED argv
              \/ /\ name \in {"extract", "append"} => role.scratch # NULL
                 /\ argv' = SubSeq(argv, argcOf(name) + 1, Len(argv)) /\ UNCHANGED pc
  /\ UNCHANGED <<asked, disks, how, seed, format, bdev_name, role>>

\* shutdown () as configured; without, a panic spins and main's thread exits.
EndState == IF how # "none" THEN how ELSE IF pc = "panic" THEN "hung" ELSE "idle"

\* main's end, and debug_panic's.
shutdown ==
  /\ pc = "panic" \/ (pc = "actions" /\ argv = <<>>)
  /\ pc' = EndState
  /\ UNCHANGED <<asked, disks, argv, how, seed, format, bdev_name, role, executed>>

Stopped == pc \in {"off", "reboot", "idle", "hung"} /\ UNCHANGED bootVars

BootNext ==
  \/ parse_option \/ EndOptions \/ locate_block_devices \/ filesys_init \/ run_action \/ shutdown \/ Stopped

BootSpec == BootInit /\ [][BootNext]_bootVars
-----------------------------------------------------------------------------
\* "Actions are executed in the order specified", each with its own arguments,
\* all of them unless the kernel panics, and none after bad options.
ActionsAsWritten ==
  /\ IsPrefix(executed, asked.actions)
  /\ pc = "actions" /\ argv = <<>> => executed = asked.actions /\ asked.rest = <<>>
  /\ executed # <<>> => \A k \in DOMAIN asked.options : ~Wrong(asked.options[k])

\* The options looked at: up to help or a wrong one.
Seen == {k \in DOMAIN asked.options :
           \A j \in 1 .. k - 1 : asked.options[j].name # "-h" /\ ~Wrong(asked.options[j])}
LastOf(names) == {k \in Seen : asked.options[k].name \in names /\ \A j \in Seen : asked.options[j].name \in names => j <= k}

\* "-filesys=BDEV: Use BDEV for file system instead of default", and the others:
\* when actions run, there is a file system device, and every role has the
\* device last named for it, or else the first one of its type.
DevicesAsAsked ==
  pc = "actions" =>
    /\ role.filesys # NULL
    /\ \A n \in DOMAIN RoleNamed : LET r == RoleNamed[n] IN
         IF \E k \in LastOf({n}) : asked.options[k].value # NULL
         THEN \A k \in LastOf({n}) : role[r] = asked.options[k].value /\ \E i \in DOMAIN disks : disks[i].name = role[r]
         ELSE \A i \in DOMAIN disks : disks[i].type = r /\ (\A j \in 1 .. i - 1 : disks[j].type # r) => role[r] = disks[i].name

\* "-q Power off VM after actions or on panic", "-r Reboot after actions": the
\* machine ends the way the last of them says.  Without -rs the clock seeds the
\* random numbers.  (With it too, although the comment says the clock then "has
\* no effect": nothing is claimed of that.)
EndsAsAsked ==
  /\ pc = "off" => \E k \in LastOf({"-q", "-r"}) \cup LastOf({"-h"}) : asked.options[k].name \in {"-q", "-h"}
  /\ pc = "reboot" => \E k \in LastOf({"-q", "-r"}) : asked.options[k].name = "-r"
  /\ pc \in {"idle", "hung"} => LastOf({"-q", "-r"}) = {}
  /\ executed # <<>> /\ LastOf({"-rs"}) = {} => seed = Clock
=============================================================================
