------------------------------ MODULE FileApps ------------------------------
(***************************************************************************)
(* The three applications that work on the file system side by side: the   *)
(* terminal's file commands (kernel/src/apps/terminal.rs), the file        *)
(* manager (filemgr.rs) and the editor (editor.rs). Each keeps vnode ids   *)
(* between events: the terminal its directory, the file manager its        *)
(* directory and the rows it listed, the editor the file it has open.      *)
(* One event is handled at a time, to the end. The session is root's, so   *)
(* perm::allowed holds for everything.                                     *)
(*                                                                         *)
(* A path is [abs, parts]: whether it starts with '/', and its components  *)
(* without the empty ones and ".".                                         *)
(***************************************************************************)
EXTENDS RamFs

CONSTANTS DotDot,   \* the component ".."
          Path,     \* the paths that are typed
          MAX_ROWS, \* rows of the file manager's list
          Apps      \* the applications in use

AppNames == {"terminal", "files", "editor"}

ASSUME FileAppsInputs == Apps \subseteq AppNames /\ MAX_ROWS \in Nat

VARIABLES termCwd,  \* terminal.rs CWD
          fm,       \* filemgr.rs CWD, ROWS, HAS_PARENT, SELECTED, MODE
          ed        \* editor.rs FILE_ID, TEXT[..LEN], DIRTY

vars == <<fs, termCwd, fm, ed>>

-----------------------------------------------------------------------------
(* vfs.rs: paths *)

\* One component of a walk; 0 once a component is missing.
Walk(s, cur, part) ==
    IF cur = 0 THEN 0
    ELSE IF part = DotDot
    THEN IF get_parent(s, cur) # 0 THEN get_parent(s, cur) ELSE cur
    ELSE lookup(s, cur, part)

resolve_from(s, cwd, path) ==
    LET at[n \in 0 .. Len(path.parts)] ==
            IF n = 0 THEN (IF path.abs THEN ROOT_ID ELSE cwd)
                     ELSE Walk(s, at[n - 1], path.parts[n])
    IN  at[Len(path.parts)]

Last(path) == path.parts[Len(path.parts)]

Front(path) == [path EXCEPT !.parts = SubSeq(@, 1, Len(@) - 1)]

\* The directory a path's last component is in; 0 where the code has None.
\* A path of one component is taken to be in cwd, also when it is absolute.
split_parent(s, cwd, path) ==
    LET dir == IF Len(path.parts) = 1 THEN cwd ELSE resolve_from(s, cwd, Front(path))
    IN  IF path.parts # <<>> /\ is_dir(s, dir) THEN dir ELSE 0

-----------------------------------------------------------------------------
(* editor.rs *)

EdIdle == [file |-> 0, text |-> <<>>, dirty |-> FALSE]

\* What the editor holds after it.
open_file(s, e, id) ==
    IF id \in Live(s) /\ ~ is_dir(s, id)
    THEN [file |-> id, text |-> read_file(s, id), dirty |-> FALSE]
    ELSE e

\* Keys pressed in the editor: some other text that fits the buffer.
EdType(text) ==
    /\ Len(text) <= MAX_FILE_SIZE
    /\ ed' = [ed EXCEPT !.text = text, !.dirty = TRUE]
    /\ UNCHANGED <<fs, termCwd, fm>>

\* The result of write_file is only printed.
save ==
    /\ ed.file \in Live(fs)
    /\ fs' = write_file(fs, ed.file, ed.text)
    /\ ed' = [ed EXCEPT !.dirty = FALSE]
    /\ UNCHANGED <<termCwd, fm>>

EdRevert ==
    /\ ed' = open_file(fs, ed, ed.file)
    /\ UNCHANGED <<fs, termCwd, fm>>

-----------------------------------------------------------------------------
(* terminal.rs *)

cmd_cd(path) ==
    /\ is_dir(fs, resolve_from(fs, termCwd, path))
    /\ termCwd' = resolve_from(fs, termCwd, path)
    /\ UNCHANGED <<fs, fm, ed>>

\* touch and mkdir.
cmd_make(path, vtype) ==
    LET dir == split_parent(fs, termCwd, path)
    IN  /\ dir # 0
        /\ fs' = create_node(fs, dir, Last(path), vtype)
        /\ UNCHANGED <<termCwd, fm, ed>>

cmd_rm(path) ==
    LET dir == split_parent(fs, termCwd, path)
    IN  /\ dir # 0
        /\ fs' = unlink(fs, dir, Last(path))
        /\ UNCHANGED <<termCwd, fm, ed>>

\* Into an existing directory, under the original name.
MvTarget(s, from, to) ==
    IF is_dir(s, resolve_from(s, termCwd, to)) /\ from.parts # <<>>
    THEN [to EXCEPT !.parts = Append(@, Last(from))]
    ELSE to

\* The original dropped before its bytes are read.
DropAndCopy(s, src, old, dst, new) ==
    LET id  == lookup(s, src, old)
        s1  == create_node(s, dst, new, "File")
        nid == lookup(s1, dst, new)
        s2  == unlink(s1, src, old)
    IN  IF nid \in Live(s1) \ Live(s) THEN write_file(s2, nid, read_file(s2, id)) ELSE s1

\* Moving a directory's entry to another directory: a new file, the bytes,
\* and the old entry dropped. The result of write_file is not looked at.
CopyAndDrop(s, src, old, dst, new) ==
    LET id  == lookup(s, src, old)
        s1  == create_node(s, dst, new, "File")
        nid == lookup(s1, dst, new)
        s2  == write_file(s1, nid, read_file(s, id))
    IN  IF nid \in Live(s1) \ Live(s) THEN unlink(s2, src, old) ELSE s1

cmd_mv(from, to) ==
    LET target == MvTarget(fs, from, to)
        src    == split_parent(fs, termCwd, from)
        dst    == split_parent(fs, termCwd, target)
        old    == Last(from)
        new    == Last(target)
    IN  /\ src # 0 /\ dst # 0
        /\ lookup(fs, src, old) # 0
        /\ IF src = dst
           THEN fs' = rename(fs, src, old, new)
           ELSE /\ ~ is_dir(fs, lookup(fs, src, old))
                /\ fs' = CopyAndDrop(fs, src, old, dst, new)
        /\ UNCHANGED <<termCwd, fm, ed>>

cmd_edit(path) ==
    /\ ed' = open_file(fs, ed, resolve_from(fs, termCwd, path))
    /\ UNCHANGED <<fs, termCwd, fm>>

-----------------------------------------------------------------------------
(* filemgr.rs *)

None == 0          \* SELECTED = u64::MAX; display rows are counted from 1

\* The ".." row, and any row that is not there.
NoEntry == [id |-> 0, vtype |-> "File"]

read_dir(s, id) ==
    LET kids == IF id \in Live(s) THEN s.tree[id].kids ELSE <<>>
        n    == IF Len(kids) <= MAX_ROWS THEN Len(kids) ELSE MAX_ROWS
    IN  [i \in 1 .. n |-> [id |-> kids[i], vtype |-> s.tree[kids[i]].vtype]]

\* The rows of the directory, and whether ".." is shown above them.
refresh(s, f) == [f EXCEPT !.rows = read_dir(s, f.cwd), !.up = f.cwd # ROOT_ID]

FmStart(s) ==
    refresh(s, [cwd |-> ROOT_ID, rows |-> <<>>, up |-> FALSE, sel |-> None,
                mode |-> "Browse"])

display_rows(f) == Len(f.rows) + IF f.up THEN 1 ELSE 0

entry(f, row) ==
    LET i == IF f.up THEN row - 1 ELSE row
    IN  IF i \in DOMAIN f.rows THEN f.rows[i] ELSE NoEntry

\* Row 0 is no row.
selected_entry(f) == entry(f, f.sel)

get_name(s, id) == IF id \in Live(s) THEN s.tree[id].name ELSE BadName

navigate_to(s, f, id) == refresh(s, [f EXCEPT !.cwd = id, !.sel = None])

\* The window is opened again after it was closed.
FmOpen == fm' = FmStart(fs) /\ UNCHANGED <<fs, termCwd, ed>>

\* The type is the one the row was listed with. A directory that has gone
\* since is entered all the same.
open_selected ==
    LET e == selected_entry(fm)
    IN  /\ e.id # 0
        /\ IF e.vtype = "Dir"
           THEN fm' = navigate_to(fs, fm, e.id) /\ ed' = ed
           ELSE fm' = fm /\ ed' = open_file(fs, ed, e.id)
        /\ UNCHANGED <<fs, termCwd>>

go_up ==
    /\ get_parent(fs, fm.cwd) # 0
    /\ fm' = navigate_to(fs, fm, get_parent(fs, fm.cwd))
    /\ UNCHANGED <<fs, termCwd, ed>>

\* A click in the list: the first selects, the second on the row activates.
FmClickRow(row) ==
    /\ row <= display_rows(fm)
    /\ \/ /\ fm.sel # row
          /\ fm' = [fm EXCEPT !.sel = row]
          /\ UNCHANGED <<fs, termCwd, ed>>
       \/ fm.sel = row /\ fm.up /\ row = 1 /\ go_up
       \/ fm.sel = row /\ open_selected

delete_selected ==
    LET e == selected_entry(fm)
        s == unlink(fs, fm.cwd, get_name(fs, e.id))
    IN  /\ e.id # 0
        /\ fs' = s
        /\ fm' = refresh(s, [fm EXCEPT !.sel = IF s # fs THEN None ELSE @])
        /\ UNCHANGED <<termCwd, ed>>

\* A toolbar button that asks for a name, or Escape.
begin(mode) ==
    /\ mode = "Rename" => selected_entry(fm).id # 0
    /\ fm' = [fm EXCEPT !.mode = mode]
    /\ UNCHANGED <<fs, termCwd, ed>>

Committed(s, f, name) ==
    CASE f.mode = "NewFile" -> create_node(s, f.cwd, name, "File")
      [] f.mode = "NewDir"  -> create_node(s, f.cwd, name, "Dir")
      [] f.mode = "Rename"  -> rename(s, f.cwd, get_name(s, selected_entry(f).id), name)

\* Enter, after the name was typed.
commit_input(name) ==
    /\ fm.mode # "Browse"
    /\ fs' = Committed(fs, fm, name)
    /\ fm' = refresh(fs', [fm EXCEPT !.mode = "Browse"])
    /\ UNCHANGED <<termCwd, ed>>

-----------------------------------------------------------------------------

AppsInit == Init /\ termCwd = ROOT_ID /\ fm = FmStart(fs) /\ ed = EdIdle

Terminal ==
    /\ "terminal" \in Apps
    /\ \/ \E p \in Path : cmd_cd(p)
       \/ \E p \in Path, t \in VnodeType : cmd_make(p, t)
       \/ \E p \in Path : cmd_rm(p)
       \/ \E p, q \in Path : cmd_mv(p, q)
       \/ \E p \in Path : cmd_edit(p)

FileManager ==
    /\ "files" \in Apps
    /\ \/ FmOpen
       \/ \E row \in 1 .. MAX_ROWS : FmClickRow(row)
       \/ open_selected
       \/ delete_selected
       \/ \E mode \in {"NewFile", "NewDir", "Rename", "Browse"} : begin(mode)
       \/ \E name \in Name : commit_input(name)

Editor ==
    /\ "editor" \in Apps
    /\ \/ \E text \in Data : EdType(text)
       \/ save
       \/ EdRevert

AppsNext == Terminal \/ FileManager \/ Editor

AppsSpec == AppsInit /\ [][AppsNext]_vars

-----------------------------------------------------------------------------
(* Properties *)

\* What an application remembers by id stays true while the vnode lives,
\* whatever the other applications did meanwhile: a listed row is still a
\* child of the directory the file manager shows and of the type it was
\* listed with, the two working directories are directories and the file in
\* the editor is a file. delete_selected, rename and save act on such ids.
KeptIdsStayTrue ==
    /\ \A i \in DOMAIN fm.rows :
          fm.rows[i].id \in Live(fs) =>
              /\ get_parent(fs, fm.rows[i].id) = fm.cwd
              /\ fs.tree[fm.rows[i].id].vtype = fm.rows[i].vtype
    /\ \A d \in {termCwd, fm.cwd} : d \in Live(fs) => is_dir(fs, d)
    /\ ed.file \in Live(fs) => ~ is_dir(fs, ed.file)

Orphans(s) == {i \in Live(s) \ {ROOT_ID} : ~ is_dir(s, get_parent(s, i))}

\* A vnode is created in a directory that exists and loses it to nobody, with
\* one exception: create_node does not look at its parent, so the file manager
\* makes an entry in a directory that was removed since it went there.
OrphansOnlyFromStaleCwd ==
    [][Orphans(fs') \subseteq Orphans(fs)
         \/ (fm.cwd \notin Live(fs) /\ fm.mode # "Browse")]_vars

\* No allocation has failed yet: a failed bump of alloc_data is never taken back.
PoolHeldOut == fs.next <= DATA_POOL_SIZE

\* The text in the editor is the file's once it is shown as not modified, as
\* long as the pool lasts: save does not look at what write_file returns.
SavedMeansWritten ==
    PoolHeldOut /\ ~ ed.dirty /\ ed.file \in Live(fs) => read_file(fs, ed.file) = ed.text

\* What the three applications show agrees with the file system, whatever the
\* other two did since.
AppsAgree == KeptIdsStayTrue /\ SavedMeansWritten

Contents(s) == {read_file(s, i) : i \in {j \in Live(s) : ~ is_dir(s, j)}}

\* The same for a move that found room for the copy.
MovedWithinPool ==
    [][Contents(fs') # Contents(fs) /\ PoolHeldOut' => ~ \E p, q \in Path : cmd_mv(p, q)]_vars

\* No command of one application takes an entry, or the data under a name it
\* moves, from the others.
NothingLost == OrphansOnlyFromStaleCwd /\ MovedWithinPool
=============================================================================
