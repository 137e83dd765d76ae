-------------------------------- MODULE Log --------------------------------
(***************************************************************************)
(* The logger every daemon links, src/src/log.c: a level, a set of         *)
(* channels and an identity, initialised lazily by the first message that  *)
(* passes the level, over the process-wide syslog connection of the C      *)
(* library (external: openlog, closelog, vsyslog).                         *)
(***************************************************************************)
EXTENDS Naturals

CONSTANTS
  Idents,        \* the identities programs pass to log_open
  Channels,      \* LOG_CHANNEL_*: "console", "syslog" and the unimplemented
  LogLevels      \* LOG_OFF = 0, LOG_ALERT = 1, ..., LOG_DEBUG = 7

Null == "NULL"
ProcName == "proc"             \* the Name: line of /proc/self/status

ASSUME IdentsAssumption == Null \notin Idents /\ ProcName \notin Idents
ASSUME ChannelsAssumption == {"console", "syslog"} \subseteq Channels
ASSUME LevelsAssumption == LogLevels \subseteq 0..7 /\ 7 \in LogLevels

VARIABLES
  _log_level,
  _log_channels,
  _log_initialized,
  _log_ident,
  syslog,        \* the C library's: is its connection open, and its identity
  logged         \* history: the tag the last message carried on each channel

logVars == <<_log_level, _log_channels, _log_initialized, _log_ident, syslog,
             logged>>

Tags == Idents \cup {ProcName, Null}
NotSent == "not sent"
Nothing == [console |-> NotSent, syslog |-> NotSent]
Closed  == [open |-> FALSE, tag |-> Null]

LogInit ==
  /\ _log_level = 7
  /\ _log_channels = {"console"}
  /\ _log_initialized = FALSE
  /\ _log_ident = Null
  /\ syslog = Closed
  /\ logged = Nothing

-----------------------------------------------------------------------------
\* log_close, called with the channels already in force: closelog only if they
\* include syslog.  The value of `syslog` after it.
AfterClose(initialized, channels) ==
  IF initialized /\ "syslog" \in channels THEN Closed ELSE syslog

\* openlog without LOG_NDELAY sets the identity, which NULL leaves as it is, and
\* opens nothing: the first message does.
AfterOpenlog(conn, ident) ==
  IF ident = Null THEN conn ELSE [conn EXCEPT !.tag = ident]

\* log_defaults on an uninitialised logger: take the process name for a missing
\* identity (fopen may fail), and tell syslog if a channel wants it.
Defaults(ident) ==
  /\ _log_ident' \in IF ident = Null THEN {ProcName, Null} ELSE {ident}
  /\ _log_initialized' = TRUE

AfterDefaults(channels, before) ==
  IF "syslog" \in channels THEN AfterOpenlog(before, _log_ident') ELSE before

\* vsyslog connects if nothing is open.
log_output(l) ==
  /\ l # 0 /\ l <= _log_level
  /\ IF _log_initialized THEN UNCHANGED <<_log_ident, _log_initialized>>
     ELSE Defaults(_log_ident)
  /\ LET conn == IF _log_initialized THEN syslog
                 ELSE AfterDefaults(_log_channels, syslog)
     IN  syslog' = IF "syslog" \in _log_channels THEN [conn EXCEPT !.open = TRUE]
                   ELSE conn
  /\ logged' = [console |-> IF "console" \in _log_channels THEN _log_ident'
                            ELSE NotSent,
                syslog  |-> IF "syslog" \in _log_channels THEN syslog'.tag
                            ELSE NotSent]
  /\ UNCHANGED <<_log_level, _log_channels>>

\* Wrong on purpose (the mutants named in PROJECT.json): levels count from one.
log_set_level_next(l) ==
  /\ _log_level' = l + 1
  /\ UNCHANGED <<_log_channels, _log_initialized, _log_ident, syslog, logged>>

log_set_level(l) ==
  /\ _log_level' = l
  /\ UNCHANGED <<_log_channels, _log_initialized, _log_ident, syslog, logged>>

\* Wrong on purpose: the new channels are not opened.
log_set_channel_only(c) ==
  /\ _log_channels' = c
  /\ UNCHANGED <<_log_level, _log_initialized, _log_ident, syslog, logged>>

\* The new channels are in force before log_close looks at them.
log_set_channel(c) ==
  /\ _log_channels' = c
  /\ Defaults(_log_ident)
  /\ syslog' = AfterDefaults(c, AfterClose(_log_initialized, c))
  /\ UNCHANGED <<_log_level, logged>>

\* Wrong on purpose: a logger in use is not closed first.
log_open_over(ident, c) ==
  /\ _log_ident' = ident
  /\ _log_channels' = c
  /\ UNCHANGED <<_log_level, _log_initialized, syslog, logged>>

log_open(ident, c) ==
  /\ syslog' = AfterClose(_log_initialized, _log_channels)
  /\ _log_initialized' = FALSE
  /\ _log_ident' = ident
  /\ _log_channels' = c
  /\ UNCHANGED <<_log_level, logged>>

log_close ==
  /\ syslog' = AfterClose(_log_initialized, _log_channels)
  /\ _log_initialized' = FALSE
  /\ UNCHANGED <<_log_level, _log_channels, _log_ident, logged>>

LogNext ==
  \/ \E l \in LogLevels : log_output(l) \/ log_set_level(l)
  \/ \E c \in SUBSET Channels : log_set_channel(c)
  \/ \E i \in Idents \cup {Null}, c \in SUBSET Channels : log_open(i, c)
  \/ log_close

LogSpec == LogInit /\ [][LogNext]_logVars

-----------------------------------------------------------------------------
(***************************************************************************)
(* Properties.                                                             *)
(***************************************************************************)
LogTypeOK ==
  /\ _log_level \in LogLevels
  /\ _log_channels \subseteq Channels
  /\ _log_initialized \in BOOLEAN
  /\ _log_ident \in Tags
  /\ syslog \in [open : BOOLEAN, tag : Tags]
  /\ logged \in [console : Tags \cup {NotSent}, syslog : Tags \cup {NotSent}]

\* However the calls that reconfigure the logger follow each other, openlog has
\* been called for an initialised logger with a syslog channel, with the identity
\* now in force, and not been undone since: log_output need never look.
SyslogReady ==
  _log_initialized /\ "syslog" \in _log_channels =>
    (_log_ident # Null => syslog.tag = _log_ident)

\* The two channels never attribute one message to two programs: a message
\* written to both bears one identity, unless none is known at all.
OneIdentity ==
  logged.console \notin {NotSent, Null} /\ logged.syslog # NotSent
    => logged.syslog = logged.console

\* log-test.c:39 calls log_close to "close log before exit": a logger that is
\* not initialised, as log_close leaves it, holds no connection that a message
\* has opened.
ClosedHoldsNothing == ~_log_initialized => ~syslog.open
=============================================================================
