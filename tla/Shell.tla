------------------------------- MODULE Shell -------------------------------
(***************************************************************************)
(* The shell that init runs (user/init.c, user/shell.c): it decodes the    *)
(* scan codes of /KEYBOARD.DEV, gathers a line, splits it into words and   *)
(* runs the command.  get_scancode blocks for every byte, so a key whose   *)
(* code has several bytes is decoded over several steps, between which     *)
(* other keys go down and up.                                              *)
(*                                                                         *)
(* A character is named by its cell of keycode_map_normal: 2 * scan code + *)
(* column, and 0 is NUL.  Files and directories are those of the volume    *)
(* (module Fat32); the shell writes none.  Addresses are real ones.        *)
(***************************************************************************)
EXTENDS Integers, Sequences, FiniteSets, TLC, SequencesExt, FiniteSetsExt

CONSTANTS
  Lines,        \* what may be typed: sequences of scan codes, Enter last
  Noise,        \* the keys that may be pressed in between
  MaxLines,     \* bound: lines typed
  MaxNoise,     \* bound: other keys pressed
  MaxHeld,      \* bound: keys down at the same time
  MaxAhead,     \* bound: scan codes waiting when a key moves
  BufSize,      \* the 256 of buf and of parse_command
  Pages,        \* the numbers of free pages do_brk may find during a line
  Directories,  \* the directories, as sequences of names; <<>> is the root
  FileSize      \* the files, as sequences of names, with their sizes

VARIABLES
  held,         \* keys that are down
  bytes,        \* scan codes in the driver's ring
  todo,         \* scan codes still to type of the current line
  room,         \* lines and other keys still allowed (bounds)
  read,         \* bytes this call of analysis_keycode has read
  mods,         \* those of shift_l .. alt_r that are 1
  buf, count,   \* the line
  argv,         \* words of the last line, as parse_command found them
  current_dir,
  heap,         \* malloc's brk_* variables, the kernel's end_brk, the end of what is
                \* mapped, the pages do_brk can still get
  mode,         \* "run", "reset" (sys_reboot), "fault" or "child_fault" (do_page_fault)
  typed,        \* history: characters typed and not yet taken as a line
  asked, cwd    \* history: words of the last line; the directory meant

vars == <<held, bytes, todo, room, read, mods, buf, count, argv, current_dir,
          heap, mode, typed, asked, cwd>>

shell_vars == <<read, mods, buf, count, argv, current_dir, heap, mode, asked,
                cwd>>

----------------------------------------------------------------------------
(* The keyboard.                                                           *)

\* The modifier keys whose codes are one byte, with the flag of each.
Modifier == 42 :> "shift_l" @@ 54 :> "shift_r" @@ 29 :> "ctrl_l" @@ 56 :> "alt_l"

\* The keys whose codes have several bytes.
Extended == [ctrl_r |-> 29, alt_r |-> 56, up |-> 72]

pausebreak_scode == <<225, 29, 69, 225, 157, 197>>

\* What a keyboard sends when key k goes down.
MakeCode(k) ==
  CASE k = <<"pause">> -> pausebreak_scode
    [] k = <<"print">> -> <<224, 42, 224, 55>>
    [] k[1] = "code" -> <<k[2]>>
    [] OTHER -> <<224, Extended[k[1]]>>

\* What a keyboard sends when key k goes up; Pause sends nothing.
BreakCode(k) ==
  CASE k = <<"pause">> -> <<>>
    [] k = <<"print">> -> <<224, 183, 224, 170>>
    [] k[1] = "code" -> <<k[2] + 128>>
    [] OTHER -> <<224, Extended[k[1]] + 128>>

\* The flags that should be set while the keys of H are down.
FlagsOf(H) ==
  {Modifier[k[2]] : k \in {h \in H : h[1] = "code" /\ h[2] \in DOMAIN Modifier}}
    \cup {k[1] : k \in H \cap {<<"ctrl_r">>, <<"alt_r">>}}

\* Rows 0x47 to 0x53, the keypad, by the cells of the main block that hold
\* the same characters.
Keypad == <<16, 18, 20, 24, 10, 12, 14, 27, 4, 6, 8, 22, 104>>

\* The table of user/keyboard.c: 0 is no character, cells with the same
\* character have one name.
keycode_map_normal(code, column) ==
  CASE code \in {0, 1} \cup 58..70 \cup 84..127 -> 0
    [] column = 1 /\ code \in {14, 15, 28} \cup 71..83 -> 0
    [] code \in 71..83 -> Keypad[code - 70]
    [] code = 55 -> 19
    [] code = 57 -> 114
    [] OTHER -> 2 * code + column

NUL == 0
Newline == 56
Space == 114
Slash == 106
Dot == 104

----------------------------------------------------------------------------
(* analysis_keycode.                                                       *)

Shifted(flags) == IF flags \cap {"shift_l", "shift_r"} # {} THEN 1 ELSE 0

\* With the bytes p read, the call reads another one.
NeedsMore(p) ==
  \/ p \in {<<224>>, <<224, 42>>, <<224, 42, 224>>, <<224, 183>>, <<224, 183, 224>>}
  \/ /\ p[1] = 225
     /\ Len(p) < 6
     /\ p = SubSeq(pausebreak_scode, 1, Len(p))

\* With the bytes p read, key is not 0: the code is consumed without effect on
\* the line.
Consumed(p) ==
  \/ p \in {pausebreak_scode, <<224, 42, 224, 55>>, <<224, 183, 224, 170>>}
  \/ p[1] = 224 /\ p[2] \notin {42, 183}

\* The scan code in x when the call has read the bytes p.
ScanCode(p) == IF p[1] = 224 THEN p[2] ELSE p[1]

SetFlag(flags, f, make) == IF make THEN flags \cup {f} ELSE flags \ {f}

\* Fault variant: the E0 prefix is skipped, so right and left keys are the same.
Flags_OneSide(p) ==
  LET x == ScanCode(p) IN
  IF x % 128 \in DOMAIN Modifier
  THEN SetFlag(mods, Modifier[x % 128], x < 128) ELSE mods

\* The flags after a call that read the bytes p.
FlagsAfter(p) ==
  LET x == ScanCode(p)
      make == x < 128
      code == x % 128
  IN  IF Consumed(p)
      THEN IF p[1] = 224 /\ Len(p) = 2 /\ code \in {29, 56}
           THEN SetFlag(mods, IF code = 29 THEN "ctrl_r" ELSE "alt_r", make)
           ELSE mods
      ELSE IF code \in DOMAIN Modifier THEN SetFlag(mods, Modifier[code], make)
           ELSE mods

\* The key it returns, 0 for none.
KeyOf(p) ==
  LET x == ScanCode(p)
  IN  IF Consumed(p) \/ x >= 128 \/ x \in DOMAIN Modifier THEN 0
      ELSE keycode_map_normal(x, Shifted(mods))

----------------------------------------------------------------------------
(* parse_command.                                                          *)

Index == 0..BufSize - 1

\* Where buf[j..] first holds a character that is not a space.
SkipSpaces(b, j) == Min({k \in j..BufSize - 1 : b[k] # Space})

\* Where the word at j ends.
WordEnd(b, j) == Min({k \in j..BufSize - 1 : b[k] \in {Space, NUL}})

\* The first loop: the number of words.
Argc(b) ==
  LET j == SkipSpaces(b, 0)
  IN  Cardinality({i \in j..BufSize - 2 :
                     /\ \A k \in j..i : b[k] # NUL
                     /\ b[i] # Space
                     /\ b[i + 1] \in {Space, NUL}})

\* The second loop: where word i starts, which steps over the NUL it stored
\* behind the word before.
WordStart(b) ==
  LET start[i \in Nat] ==
        IF i = 0 THEN SkipSpaces(b, 0)
        ELSE SkipSpaces(b, WordEnd(b, start[i - 1]) + 1)
  IN  start

parse_command(b) ==
  [n \in 1..Argc(b) |->
     LET j == WordStart(b)[n - 1]
     IN  [i \in 1..WordEnd(b, j) - j |-> b[j + i - 1]]]

----------------------------------------------------------------------------
(* malloc and brk.                                                         *)

SIZE_ALIGN == 64
PAGE_SIZE == 2097152
BrkStart == 12582912    \* 0xc00000, set by do_execve

AlignUp(n) == ((n + PAGE_SIZE - 1) \div PAGE_SIZE) * PAGE_SIZE

\* malloc's first call asks for the break.
Opened(h) ==
  IF h.start = 0
  THEN [h EXCEPT !.start = BrkStart, !.used = BrkStart, !.end = BrkStart]
  ELSE h

\* Fault variant: the break moves by one page whatever the size.
NewBreak_OnePage(h, size) ==
  IF h.end <= h.used + SIZE_ALIGN + size THEN h.end + PAGE_SIZE ELSE h.end

\* It moves the break when the block and its margin do not fit.
NewBreak(h, size) ==
  IF h.end <= h.used + SIZE_ALIGN + size
  THEN h.end + AlignUp(size + SIZE_ALIGN)
  ELSE h.end

\* -ENOMEM, which lies above every address.
NoMemory == 2147483647

\* do_brk maps page after page; if it runs out, those mapped so far stay.
do_brk(h, brk) ==
  LET wanted == (brk - h.end_brk) \div PAGE_SIZE
      got == Min({wanted, h.pages})
  IN  [h EXCEPT !.mapped = @ + got * PAGE_SIZE,
                !.pages = @ - got,
                !.end_brk = IF got = wanted THEN brk ELSE NoMemory]

\* The break only grows.  What do_brk returns becomes the break, an error too, and
\* goes to the caller.
sys_brk(h, brk) ==
  LET new_brk == AlignUp(brk)
      h1 == do_brk(h, new_brk)
  IN  IF new_brk < h.end_brk THEN [h EXCEPT !.end = 0] ELSE [h1 EXCEPT !.end = h1.end_brk]

\* malloc does not look at what brk returned.
malloc(h, size) ==
  LET h0 == Opened(h)
      asks == NewBreak(h0, size)
      h1 == IF asks = h0.end THEN h0 ELSE sys_brk(h0, asks)
  IN  [h1 EXCEPT !.used = @ + size + SIZE_ALIGN]

\* The last block malloc gave out lies below limit; its caller fills it at once.
Fits(h, limit) == h.used - SIZE_ALIGN <= limit

\* What a forked child has of the heap when it allocates: copy_mm copies the first page
\* only, and the child's own break starts where its parent's is.
ChildMapped(h, child) ==
  IF h.mapped > BrkStart + PAGE_SIZE THEN BrkStart + PAGE_SIZE ELSE child.mapped

----------------------------------------------------------------------------
(* The commands.  Each gives the shell's new state, of which a command that *)
(* dereferences NULL leaves only the fault.                                *)

Name(codes) == [i \in 1..Len(codes) |-> 2 * codes[i]]

shell_internal_cmd ==
  [cd |-> Name(<<46, 32>>), ls |-> Name(<<38, 31>>), pwd |-> Name(<<25, 17, 32>>),
   cat |-> Name(<<46, 30, 20>>), touch |-> Name(<<20, 24, 22, 46, 35>>),
   rm |-> Name(<<19, 50>>), mkdir |-> Name(<<50, 37, 32, 23, 19>>),
   rmdir |-> Name(<<19, 50, 32, 23, 19>>), exec |-> Name(<<18, 45, 18, 46>>),
   reboot |-> Name(<<19, 18, 48, 24, 24, 20>>)]

\* path_walk's components: the parts between runs of slashes.
Parts(s, sep) ==
  LET starts == {i \in DOMAIN s : s[i] # sep /\ (i = 1 \/ s[i - 1] = sep)}
      stop(i) == Min({k \in i..Len(s) : k = Len(s) \/ s[k + 1] = sep})
      order == SetToSortSeq(starts, <)
  IN  [n \in DOMAIN order |-> SubSeq(s, order[n], stop(order[n]))]

path_walk(path) == Parts(path, Slash)

\* Fault variant: no slash between the directory and the name.
Join_NoSlash(dir, name) == dir \o name

\* The path of a name in the current directory, as cd, cat and exec build it.
Join(dir, name) == dir \o (IF Len(dir) > 1 THEN <<Slash>> ELSE <<>>) \o name

Running(dir, h) == [mode |-> "run", dir |-> dir, heap |-> h]

PageFault(dir, h) == [mode |-> "fault", dir |-> dir, heap |-> h]

\* A command goes on as next says if the block it has just filled is mapped.
Filled(dir, h, next) == IF Fits(h, h.mapped) THEN next ELSE PageFault(dir, h)

\* ".." cuts the path at its last slash, but never the leading one.
CutLast(dir) ==
  SubSeq(dir, 1, Max({1} \cup {i \in 2..Len(dir) - 1 : dir[i + 1] = Slash}))

cd_command(av, dir, h) ==
  IF Len(av) < 2 THEN PageFault(dir, h)
  ELSE CASE av[2] = <<Dot>> -> Running(dir, h)
         [] av[2] = <<Dot, Dot>> ->
              Running(IF dir = <<Slash>> THEN dir ELSE CutLast(dir), h)
         [] OTHER ->
              LET path == Join(dir, av[2])
                  h1 == malloc(h, Len(dir) + Len(av[2]) + 2)
              IN  Filled(dir, h1, Running(IF path_walk(path) \in Directories THEN path ELSE dir, h1))

\* opendir allocates a struct DIR once open has succeeded.
opendir(h) == malloc(h, 268)

\* It returns NULL when open fails, and ls reads its fd.  The other block is not used.
ls_command(av, dir, h) ==
  IF path_walk(dir) \in Directories
  THEN Filled(dir, opendir(h), Running(dir, malloc(opendir(h), 256)))
  ELSE PageFault(dir, h)

\* A file that cannot be opened gives lseek -1, malloc(0) NULL, and printf
\* the length of NULL.
cat_command(av, dir, h) ==
  IF Len(av) < 2 \/ path_walk(Join(dir, av[2])) \notin DOMAIN FileSize
  THEN PageFault(dir, h)
  ELSE LET path == Join(dir, av[2])
           h1 == malloc(h, Len(dir) + Len(av[2]) + 2)
           h2 == malloc(h1, FileSize[path_walk(path)] + 1)
       IN  Filled(dir, h1, Filled(dir, h2, Running(dir, h2)))

\* The child reads argv and builds the path in its own copy of the heap and exits, at
\* the latest when execve fails; the parent waits for it.
exec_command(av, dir, h) ==
  LET child == malloc(h, Len(dir) + Len(av[2]) + 2)
  IN  IF Len(av) < 2 THEN PageFault(dir, h)
      ELSE IF Fits(child, ChildMapped(h, child)) THEN Running(dir, h)
      ELSE [mode |-> "child_fault", dir |-> dir, heap |-> h]

reboot_command(av, dir, h) == [mode |-> "reset", dir |-> dir, heap |-> h]

\* parse_command's argv, find_cmd and run_command.
run_command(av, dir, h0) ==
  IF av = <<>> THEN Running(dir, h0)
  ELSE LET h == malloc(h0, 8 * (Len(av) + 1))
       IN  CASE ~Fits(h, h.mapped) -> PageFault(dir, h)
             [] av[1] = shell_internal_cmd.cd -> cd_command(av, dir, h)
             [] av[1] = shell_internal_cmd.ls -> ls_command(av, dir, h)
             [] av[1] = shell_internal_cmd.cat -> cat_command(av, dir, h)
             [] av[1] = shell_internal_cmd.exec -> exec_command(av, dir, h)
             [] av[1] = shell_internal_cmd.reboot -> reboot_command(av, dir, h)
             [] OTHER -> Running(dir, h)

----------------------------------------------------------------------------
(* What was meant: the words of a line and the directory they lead to.     *)

Words(line) == Parts(line, Space)

\* The line in s and what follows it.
FirstLine(s) ==
  SubSeq(s, 1, Min({i \in DOMAIN s : s[i] = Newline} \cup {Len(s) + 1}) - 1)

AfterLine(s) == SubSeq(s, Len(FirstLine(s)) + 2, Len(s))

Meant(words, dir) ==
  IF Len(words) < 2 \/ words[1] # shell_internal_cmd.cd \/ words[2] = <<Dot>> THEN dir
  ELSE IF words[2] = <<Dot, Dot>> THEN SubSeq(dir, 1, Len(dir) - 1)
  ELSE IF Append(dir, words[2]) \in Directories THEN Append(dir, words[2])
  ELSE dir

----------------------------------------------------------------------------
Cleared == [i \in Index |-> NUL]

\* main has opened the keyboard and printed its prompt.
Init ==
  /\ held = {}
  /\ bytes = <<>>
  /\ todo = <<>>
  /\ room = [lines |-> MaxLines, noise |-> MaxNoise]
  /\ read = <<>>
  /\ mods = {}
  /\ buf = Cleared
  /\ count = 0
  /\ argv = <<>>
  /\ current_dir = <<Slash>>
  /\ heap = [start |-> 0, used |-> 0, end |-> 0, end_brk |-> BrkStart,
             mapped |-> BrkStart, pages |-> 0]
  /\ mode = "run"
  /\ typed = <<>>
  /\ asked = <<>>
  /\ cwd = <<>>

\* The user decides on the next line.
Decide ==
  /\ mode = "run"
  /\ todo = <<>>
  /\ room.lines > 0
  /\ \E line \in Lines : todo' = line
  /\ room' = [room EXCEPT !.lines = @ - 1]
  /\ UNCHANGED <<held, bytes, typed, shell_vars>>

\* What a key adds to the line, by the keys that are down.
Char(k) ==
  LET c == IF k[1] # "code" \/ k[2] \in DOMAIN Modifier THEN NUL
           ELSE keycode_map_normal(k[2], Shifted(FlagsOf(held)))
  IN  IF c = NUL THEN <<>> ELSE <<c>>

GoesDown(k) ==
  /\ mode = "run"
  /\ k \notin held
  /\ Cardinality(held) < MaxHeld
  /\ Len(bytes) <= MaxAhead
  /\ held' = held \cup {k}
  /\ bytes' = bytes \o MakeCode(k)
  /\ typed' = typed \o Char(k)
  /\ UNCHANGED shell_vars

\* The next key of the line.
Press ==
  /\ todo # <<>>
  /\ GoesDown(<<"code", Head(todo)>>)
  /\ todo' = Tail(todo)
  /\ UNCHANGED room

\* Another key in between.
PressOther(k) ==
  /\ room.noise > 0
  /\ GoesDown(k)
  /\ room' = [room EXCEPT !.noise = @ - 1]
  /\ UNCHANGED todo

Release(k) ==
  /\ mode = "run"
  /\ k \in held
  /\ Len(bytes) <= MaxAhead
  /\ held' = held \ {k}
  /\ bytes' = bytes \o BreakCode(k)
  /\ UNCHANGED <<todo, room, typed, shell_vars>>

\* The line is complete: parse it, run it, clear the buffer.
RunLine(pages) ==
  LET av == parse_command(buf)
      after == run_command(av, current_dir, [heap EXCEPT !.pages = pages])
  IN  /\ argv' = av
      /\ asked' = Words(FirstLine(typed))
      /\ typed' = AfterLine(typed)
      /\ cwd' = Meant(asked', cwd)
      /\ current_dir' = after.dir
      /\ heap' = [after.heap EXCEPT !.pages = 0]
      /\ mode' = after.mode
      /\ buf' = Cleared
      /\ count' = 0

Store(key) ==
  /\ count < BufSize - 1
  /\ buf' = [buf EXCEPT ![count] = key]
  /\ count' = count + 1
  /\ UNCHANGED <<argv, current_dir, heap, mode, typed, asked, cwd>>

\* One byte arrives in get_scancode; the last of a code ends the call of
\* analysis_keycode, and main goes on with its key.
get_scancode ==
  LET p == Append(read, Head(bytes))
  IN  /\ mode = "run"
      /\ bytes # <<>>
      /\ bytes' = Tail(bytes)
      /\ UNCHANGED <<held, todo, room>>
      /\ \/ /\ NeedsMore(p)
            /\ read' = p
            /\ UNCHANGED <<mods, buf, count, argv, current_dir, heap, mode,
                           typed, asked, cwd>>
         \/ /\ ~NeedsMore(p)
            /\ read' = <<>>
            /\ mods' = FlagsAfter(p)
            /\ \/ KeyOf(p) = Newline /\ \E pages \in Pages : RunLine(pages)
               \/ KeyOf(p) \notin {NUL, Newline} /\ Store(KeyOf(p))
               \/ KeyOf(p) = NUL /\ UNCHANGED <<buf, count, argv, current_dir,
                                                heap, mode, typed, asked, cwd>>

Next ==
  \/ Decide
  \/ Press
  \/ \E k \in Noise : PressOther(k)
  \/ \E k \in held : Release(k)
  \/ get_scancode

Spec == Init /\ [][Next]_vars

----------------------------------------------------------------------------
\* The words a command gets are those that were typed, with the shift that was
\* down when each key was pressed, and once every scan code has been read the
\* flags agree with the keyboard: analysis_keycode stays in step through codes
\* of two, four and six bytes (user/shell.c:242-302), and parse_command's two
\* loops agree with each other (user/shell.c:193-218).
ArgsAsTyped ==
  /\ argv = asked
  /\ bytes = <<>> /\ read = <<>> /\ mode = "run" =>
       /\ mods = FlagsOf(held)
       /\ [i \in 1..count |-> buf[i - 1]] = typed

\* current_dir, which cd edits as a string, names the directory that the
\* commands so far lead to (user/shell.c:25-67), unless the last of them faulted.
DirectoryNamed ==
  /\ mode # "fault" => path_walk(current_dir) = cwd
  /\ cwd \in Directories

\* As long as do_brk has found the pages it was asked for, every block malloc has handed
\* out lies in mapped pages (user/userlibs.c:558-565), and user and kernel agree on the
\* break.
HeapMapped ==
  heap.end_brk # NoMemory =>
    /\ heap.used <= heap.mapped
    /\ heap.start # 0 => heap.end = heap.end_brk

=============================================================================
