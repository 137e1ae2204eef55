--------------------------------- MODULE Roots ---------------------------------
(***************************************************************************)
(* Which directory is served and which file is logged to.  main opens the  *)
(* access log, changes the root (do_chroot) and rewrites the log's path,   *)
(* changes the directory (apply_data_dir), and from then on resolves every *)
(* request in config.dir and every reopening of the log (SIGHUP) in the    *)
(* path it kept.  The same text names different files before and after.    *)
(*                                                                         *)
(* A path is absolute or not and has names; a place is the names from the  *)
(* real root.  There are no symbolic links.                                *)
(***************************************************************************)
EXTENDS Naturals, SequencesExt

CONSTANTS
    Dirs, DataDirs, Logs,   \* paths; DataDirs may hold NoDir
    Home                    \* the place of the process when it starts

(* A relative or absolute path and its names.                              *)
RootsPath == [abs : BOOLEAN, names : Seq(STRING)]

ASSUME RootsConfig ==
    Dirs \union DataDirs \union Logs \subseteq RootsPath /\ Home \in Seq(STRING)

VARIABLES
    rootsAt,    \* the next step of main
    dir, data_dir, do_chroot,   \* fields of the configuration
    logPath,    \* the path in LogTarget::File
    logPlace,   \* where the open log file is
    root, cwd   \* of the process

rootsVars == <<rootsAt, dir, data_dir, do_chroot, logPath, logPlace, root, cwd>>

(* No data_dir.                                                            *)
NoDir == [abs |-> FALSE, names |-> <<"none">>]

slash == [abs |-> TRUE, names |-> <<>>]
dot   == [abs |-> FALSE, names |-> <<>>]

(* Path::join.                                                             *)
join(p, q) == IF q.abs THEN q ELSE [p EXCEPT !.names = @ \o q.names]

resolve(p) == (IF p.abs THEN root ELSE cwd) \o p.names

RootsInit ==
    /\ rootsAt = "open"
    /\ dir \in Dirs /\ data_dir \in DataDirs /\ do_chroot \in BOOLEAN
    /\ logPath \in Logs /\ logPlace = <<>>
    /\ root = <<>> /\ cwd = Home

-----------------------------------------------------------------------------

(* AccessLogger::open.                                                     *)
OpenLog ==
    /\ rootsAt = "open" /\ rootsAt' = "chroot"
    /\ logPlace' = resolve(logPath)
    /\ UNCHANGED <<dir, data_dir, do_chroot, logPath, root, cwd>>

(* A slip: the path stays as it was.                                       *)
path_after_chrootKept(path, jail_dir) == path

(* The log's path as seen in the jail, if the text of the jail's path is a *)
(* prefix of it; otherwise the path stays.                                 *)
path_after_chroot(path, jail_dir) ==
    IF path.abs /\ jail_dir.abs /\ IsPrefix(jail_dir.names, path.names)
    THEN [path EXCEPT !.names = SubSeq(@, Len(jail_dir.names) + 1, Len(@))]
    ELSE path

(* do_chroot, then remap_after_chroot.                                     *)
ChangeRoot ==
    /\ rootsAt = "chroot" /\ rootsAt' = "data_dir"
    /\ IF do_chroot
       THEN /\ root' = resolve(dir) /\ cwd' = root' /\ dir' = slash
            /\ logPath' = path_after_chroot(logPath, dir)
       ELSE UNCHANGED <<root, cwd, dir, logPath>>
    /\ UNCHANGED <<data_dir, do_chroot, logPlace>>

data_dir_chdir_path ==
    CASE data_dir.abs -> data_dir
      [] do_chroot /\ ~data_dir.abs -> join(slash, data_dir)
      [] OTHER -> join(dir, data_dir)

(* A slip: a relative directory is joined again after the chdir.           *)
effective_dir_after_chdirTwice ==
    CASE data_dir.abs -> data_dir
      [] do_chroot /\ ~data_dir.abs -> join(slash, data_dir)
      [] OTHER -> join(dir, data_dir)

effective_dir_after_chdir ==
    CASE data_dir.abs -> data_dir
      [] do_chroot /\ ~data_dir.abs -> join(slash, data_dir)
      [] ~do_chroot /\ ~data_dir.abs /\ dir.abs -> join(dir, data_dir)
      [] OTHER -> dot

apply_data_dir ==
    /\ rootsAt = "data_dir" /\ rootsAt' = "serving"
    /\ IF data_dir = NoDir
       THEN UNCHANGED <<cwd, dir>>
       ELSE cwd' = resolve(data_dir_chdir_path) /\ dir' = effective_dir_after_chdir
    /\ UNCHANGED <<data_dir, do_chroot, logPath, logPlace, root>>

(* SIGHUP: reopen, which creates the file if there is none.                *)
reopen ==
    /\ rootsAt = "serving"
    /\ logPlace' = resolve(logPath)
    /\ UNCHANGED <<rootsAt, dir, data_dir, do_chroot, logPath, root, cwd>>

RootsNext == OpenLog \/ ChangeRoot \/ apply_data_dir \/ reopen

RootsSpec == RootsInit /\ [][RootsNext]_rootsVars

-----------------------------------------------------------------------------

(* What is served while main goes on: dir at first, then data_dir, which   *)
(* is taken from dir or, if it is absolute, from the root.                 *)
servedAfter(d) ==
    IF data_dir = NoDir THEN resolve(d)
    ELSE IF do_chroot THEN resolve(d) \o data_dir.names
    ELSE IF data_dir.abs THEN data_dir.names
    ELSE resolve(d) \o data_dir.names

(* Neither chroot nor chdir changes the directory the configuration names: *)
(* what is about to be served stays the same place through every step of   *)
(* main, until config.dir names it (startup.rs: do_chroot, apply_data_dir).*)
ServedPlaceIsKept ==
    [][/\ rootsAt \in {"open", "chroot"} /\ rootsAt' # "serving" =>
            servedAfter(dir)' = servedAfter(dir)
       /\ rootsAt = "data_dir" /\ rootsAt' = "serving" =>
            resolve(dir)' = servedAfter(dir)]_rootsVars

(* A SIGHUP would open the file that is open, and goes on doing so through *)
(* chroot, chdir and every reopening, as long as the log's path is         *)
(* absolute and the jail, if there is one, has an absolute path and holds  *)
(* the log (logging.rs: remap_after_chroot, reopen).  A relative path, or  *)
(* one outside the jail, may be another file then.                         *)
LogStaysInPlace ==
    [][/\ rootsAt # "open" /\ logPath.abs /\ resolve(logPath) = logPlace
       /\ rootsAt = "chroot" /\ do_chroot =>
            dir.abs /\ IsPrefix(resolve(dir), logPlace)
       => logPlace' = logPlace /\ resolve(logPath)' = logPlace]_rootsVars

=============================================================================
