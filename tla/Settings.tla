------------------------------- MODULE Settings -------------------------------
(***************************************************************************)
(* How the configuration file and the command line become a ServerConfig.  *)
(* from_cli applies the file, then the flags that clap collected, in an    *)
(* order of its own; main then replays the toggles in the order in which   *)
(* they were given (apply_legacy_toggle_order).                            *)
(*                                                                         *)
(* An option is a toggle or "value", which stands for any option with an   *)
(* argument.  The command line names no option twice (clap refuses it) and *)
(* its short flags are not bundled.                                        *)
(***************************************************************************)
EXTENDS Naturals, SequencesExt

Toggle == {"chroot", "nochroot", "symlinks", "nosymlinks",
           "vhost", "novhost", "globalpasswd", "noglobalpasswd"}

Default == [do_chroot |-> FALSE, no_symlink_check |-> FALSE, vhost |-> FALSE,
            global_passwd |-> TRUE, value |-> "default"]

(* One option, applied by itself.                                          *)
apply_config_option(config, option, from) ==
    CASE option = "chroot" ->
            [config EXCEPT !.do_chroot = TRUE, !.no_symlink_check = TRUE]
      [] option = "nochroot" ->
            [config EXCEPT !.do_chroot = FALSE, !.no_symlink_check = FALSE]
      [] option = "symlinks"       -> [config EXCEPT !.no_symlink_check = FALSE]
      [] option = "nosymlinks"     -> [config EXCEPT !.no_symlink_check = TRUE]
      [] option = "vhost"          -> [config EXCEPT !.vhost = TRUE]
      [] option = "novhost"        -> [config EXCEPT !.vhost = FALSE]
      [] option = "globalpasswd"   -> [config EXCEPT !.global_passwd = TRUE]
      [] option = "noglobalpasswd" -> [config EXCEPT !.global_passwd = FALSE]
      [] OTHER                     -> [config EXCEPT !.value = from]

apply_config_file(config, options) ==
    FoldLeft(LAMBDA c, option : apply_config_option(c, option, "file"), config, options)

(* The order in which from_cli looks at the flags.                         *)
flagOrder == <<"value", "chroot", "nochroot", "symlinks", "nosymlinks",
               "vhost", "novhost", "globalpasswd", "noglobalpasswd">>

from_cli(file, args) ==
    FoldLeft(LAMBDA c, option : apply_config_option(c, option, "cli"),
             apply_config_file(Default, file),
             SelectSeq(flagOrder, LAMBDA option : option \in Range(args)))

(* A slip: the chroot toggles are not replayed.                            *)
legacy_toggle_eventsNoChroot(args) ==
    SelectSeq(args, LAMBDA option : option \in Toggle \ {"chroot", "nochroot"})

legacy_toggle_events(args) == SelectSeq(args, LAMBDA option : option \in Toggle)

apply_legacy_toggle_order(config, events) ==
    FoldLeft(LAMBDA c, event : apply_config_option(c, event, "cli"), config, events)

settingsOf(file, args) ==
    apply_legacy_toggle_order(from_cli(file, args), legacy_toggle_events(args))

-----------------------------------------------------------------------------

(* The fields an option decides, with their values.                        *)
decides(option, from) ==
    CASE option = "chroot"   -> {<<"do_chroot", TRUE>>, <<"no_symlink_check", TRUE>>}
      [] option = "nochroot" -> {<<"do_chroot", FALSE>>, <<"no_symlink_check", FALSE>>}
      [] option \in {"symlinks", "nosymlinks"} ->
            {<<"no_symlink_check", option = "nosymlinks">>}
      [] option \in {"vhost", "novhost"} -> {<<"vhost", option = "vhost">>}
      [] option \in {"globalpasswd", "noglobalpasswd"} ->
            {<<"global_passwd", option = "globalpasswd">>}
      [] OTHER -> {<<"value", from>>}

(* Every field has the value of the last option that decides it, in the    *)
(* file and then on the command line, and its default if there is none.    *)
lastOptionWins(file, args) ==
    LET given == file \o args
        from(i) == IF i <= Len(file) THEN "file" ELSE "cli"
        who(field) == {i \in DOMAIN given : \E d \in decides(given[i], from(i)) : d[1] = field}
    IN  \A field \in DOMAIN Default :
            \/ who(field) = {} /\ settingsOf(file, args)[field] = Default[field]
            \/ \E i \in who(field) :
                /\ \A j \in who(field) : j <= i
                /\ <<field, settingsOf(file, args)[field]>> \in decides(given[i], from(i))

=============================================================================
