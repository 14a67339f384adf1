---------------------------- MODULE PortSettings ----------------------------
(***************************************************************************)
(* The settings of a serial port, as its library keeps them and as they    *)
(* are in force at the device. The program holds two such libraries, which *)
(* descend from one: Serial (the motor controller's port) in its POSIX and *)
(* Windows forms, whose every change rewrites all settings and reports     *)
(* errors by exceptions, and the lidar SDK's, which rewrites one at a time *)
(* and reports by false. lib says which one is modelled; the device's      *)
(* settings outlive a close.                                               *)
(*                                                                         *)
(* A system call on an open descriptor may fail: a fault, after which      *)
(* nothing is promised (but descriptors are still counted).                *)
(***************************************************************************)
EXTENDS SerialPort, Integers

CONSTANTS Bytesizes, \* data bits
          Flows,     \* some of "none", "software" and "hardware"
          Bauds,     \* 38400, 9600 and
          CustomBaud \* a rate that is not a standard one
ASSUME ValuesAssumption ==
  /\ Flows \subseteq {"none", "software", "hardware"}
  /\ {9600, 38400, CustomBaud} \subseteq Bauds

Parities == {"none", "odd", "even", "mark", "space"} \* parity_t
Stopbits == {"one", "onehalf", "two"}                \* stopbits_t

VARIABLES
  tty,      \* the device: does it know termios2?
  fd,       \* fd_: "open", "closed" (but its value is kept) or "none"
  leaked,   \* descriptors that are open although fd_ forgot them
  settings, \* bytesize_, parity_, stopbits_, flowcontrol_, baudrate_
  device,   \* what is in force: termios and serial_struct
  faulted   \* history: a system call failed since the port was last opened

settingsVars == <<lib, tty, isOpen, fd, leaked, settings, device, faulted>>

Settings == [bytesize : Bytesizes, parity : Parities, stopbits : Stopbits, flow : Flows, baud : Bauds]

\* The flags PARENB, PARODD and CMSPAR; CSTOPB; CRTSCTS or IXON; the rate, of which a
\* custom one is BOTHER; ASYNC_SPD_CUST, which gives 38400 another meaning.
Device == [bits : Bytesizes, parity : SUBSET {"PARENB", "PARODD", "CMSPAR"}, cstopb : BOOLEAN,
           flow : Flows, rate : Bauds, spd : BOOLEAN]

Standard(baud) == baud # CustomBaud

SettingsTypeOK ==
  /\ lib \in {"serial", "windows", "lidar"} /\ {tty, isOpen, faulted} \subseteq BOOLEAN
  /\ fd \in {"open", "closed", "none"}
  /\ leaked \in 0..1
  /\ settings \in Settings /\ device \in Device

SettingsInit ==
  /\ lib \in {"serial", "windows", "lidar"} /\ tty \in BOOLEAN /\ (lib # "lidar" => tty)
  /\ isOpen = FALSE /\ fd = "none" /\ leaked = 0 /\ faulted = FALSE
  /\ settings \in {s \in Settings : s.bytesize = 8 /\ s.parity = "none" /\ s.stopbits = "one" /\ s.flow = "none"}
  /\ device = [bits |-> 8, parity |-> {}, cstopb |-> FALSE, flow |-> "none", rate |-> 9600, spd |-> FALSE]

-----------------------------------------------------------------------------
(* What the libraries make of the device's flags.                           *)

\* Mutant: PARODD is not cleared.
ParityKeepsOdd(parity, flags) ==
  CASE parity = "none" -> flags \ {"PARENB"}
    [] parity = "even" -> flags \cup {"PARENB"}
    [] parity = "odd"  -> flags \cup {"PARENB", "PARODD"}
    [] parity \in {"mark", "space"} -> flags \cup {"PARENB", "CMSPAR", "PARODD"}

\* reconfigurePort: CMSPAR, once set, is never cleared.
SerialParity(parity, flags) ==
  CASE parity = "none"  -> flags \ {"PARENB", "PARODD"}
    [] parity = "even"  -> (flags \cup {"PARENB"}) \ {"PARODD"}
    [] parity = "odd"   -> flags \cup {"PARENB", "PARODD"}
    [] parity = "mark"  -> flags \cup {"PARENB", "CMSPAR", "PARODD"}
    [] parity = "space" -> (flags \cup {"PARENB", "CMSPAR"}) \ {"PARODD"}

\* set_parity: nor here.
LidarParity(parity, flags) ==
  CASE parity = "none"  -> flags \ {"PARENB"}
    [] parity = "even"  -> (flags \cup {"PARENB"}) \ {"PARODD"}
    [] parity = "odd"   -> flags \cup {"PARENB", "PARODD"}
    [] parity = "mark"  -> flags \cup {"PARENB", "CMSPAR", "PARODD"}
    [] parity = "space" -> (flags \cup {"PARENB", "CMSPAR"}) \ {"PARODD"}

\* 1.5 stop bits are two to the one library and one to the other.
SerialStop(stopbits) == stopbits # "one"
LidarStop(stopbits)  == stopbits = "two"

\* reconfigurePort up to tcsetattr: everything but a custom rate.
SerialFlags(s, d) ==
  [bits |-> s.bytesize, parity |-> SerialParity(s.parity, d.parity), cstopb |-> SerialStop(s.stopbits),
   flow |-> s.flow, rate |-> IF Standard(s.baud) THEN s.baud ELSE d.rate, spd |-> d.spd]

\* set_databits, set_parity, set_stopbits and set_flowcontrol, for the settings named.
LidarFlags(which, s, d) ==
  [d EXCEPT !.bits   = IF "bytesize" \in which THEN s.bytesize ELSE @,
            !.parity = IF "parity" \in which THEN LidarParity(s.parity, @) ELSE @,
            !.cstopb = IF "stopbits" \in which THEN LidarStop(s.stopbits) ELSE @,
            !.flow   = IF "flow" \in which THEN s.flow ELSE @]

\* set_common_props: cfmakeraw clears PARENB, CSIZE and IXON only.
Raw(d) == [d EXCEPT !.parity = @ \ {"PARENB"}, !.flow = IF @ = "software" THEN "none" ELSE @]

\* Mutant: the custom divisor stays in force.
KeepDivisor(rate, d) == [d EXCEPT !.rate = rate]

\* setStandardBaudRate clears both forms of a custom rate first.
StandardRate(rate, d) == [d EXCEPT !.rate = rate, !.spd = FALSE]

\* setCustomBaudRate: by termios2, or else by a divisor of 38400, which setStandardBaudRate,
\* called last, clears again.
CustomRate(d) == IF tty THEN [d EXCEPT !.rate = CustomBaud]
                 ELSE StandardRate(38400, [d EXCEPT !.spd = TRUE])

LidarRate(s, d) == IF Standard(s.baud) THEN StandardRate(s.baud, d) ELSE CustomRate(d)

-----------------------------------------------------------------------------
(* The Serial library.                                                      *)

\* reconfigurePort, which throws if tcgetattr or the ioctls for a custom rate fail, and
\* does not notice if tcsetattr does.
Reconfigure(s) ==
  \/ /\ Standard(s.baud)
     /\ device' = SerialFlags(s, device) /\ UNCHANGED faulted
  \/ /\ ~Standard(s.baud)
     /\ device' = [SerialFlags(s, device) EXCEPT !.spd = TRUE] /\ UNCHANGED faulted
  \/ faulted' = TRUE /\ device' \in {device, SerialFlags(s, device)}

\* open, with its retry after EINTR. If the configuration fails, the descriptor stays open
\* in a port that is not: neither close nor the destructor closes it, and the next open
\* forgets it.
SerialOpen ==
  /\ lib = "serial" /\ ~isOpen
  /\ leaked' = IF fd = "open" THEN 1 ELSE leaked
  /\ \/ fd' = "none" /\ UNCHANGED <<isOpen, device, faulted>>   \* ::open failed
     \/ /\ fd' = "open"
        /\ \/ isOpen' = TRUE /\ faulted' = FALSE
              /\ device' = [SerialFlags(settings, device) EXCEPT !.spd = @ \/ ~Standard(settings.baud)]
           \/ isOpen' = TRUE /\ faulted' = TRUE /\ UNCHANGED device  \* tcsetattr
           \/ isOpen' = FALSE /\ faulted' = TRUE /\ device' \in {device, SerialFlags(settings, device)}
  /\ UNCHANGED <<lib, tty, settings>>

\* close throws if ::close fails, and the port stays open.
SerialClose ==
  /\ lib = "serial" /\ isOpen
  /\ isOpen' = FALSE /\ fd' = "none"
  /\ UNCHANGED <<lib, tty, leaked, settings, device, faulted>>

\* setBaudrate, setBytesize, setParity, setStopbits, setFlowcontrol: the value is stored
\* first, and if the port is open all settings are written.
SerialSet(s) ==
  /\ lib = "serial"
  /\ settings' = s
  /\ IF isOpen THEN Reconfigure(s) ELSE UNCHANGED <<device, faulted>>
  /\ UNCHANGED <<lib, tty, isOpen, fd, leaked>>

-----------------------------------------------------------------------------
(* The lidar SDK's library.                                                 *)

\* Mutant: a failed configuration leaves the descriptor open.
LidarOpenLeaky ==
  /\ lib = "lidar" /\ ~isOpen
  /\ fd' = "open" /\ isOpen' \in BOOLEAN /\ faulted' = ~isOpen'
  /\ UNCHANGED <<lib, tty, leaked, settings, device>>

\* open closes the descriptor whatever fails after it.
LidarOpen ==
  /\ lib = "lidar" /\ ~isOpen
  /\ LET flags == LidarFlags({"bytesize", "parity", "stopbits", "flow"}, settings, Raw(device)) IN
     \/ isOpen' = TRUE /\ fd' = "open" /\ faulted' = FALSE /\ device' = LidarRate(settings, flags)
     \/ isOpen' = FALSE /\ fd' = "none" /\ faulted' = TRUE /\ device' \in {device, flags}
  /\ UNCHANGED <<lib, tty, leaked, settings>>

LidarClose ==
  /\ lib = "lidar" /\ isOpen' = FALSE /\ fd' = "none"
  /\ UNCHANGED <<lib, tty, leaked, settings, device, faulted>>

\* setBytesize, setParity, setStopbits, setFlowcontrol: nothing is stored if the descriptor
\* is closed (or tcgetattr fails); the value is stored although tcsetattr may fail.
LidarSet(which, s) ==
  /\ lib = "lidar" /\ fd = "open"
  /\ settings' = s
  /\ \/ device' = LidarFlags({which}, s, device) /\ UNCHANGED faulted
     \/ faulted' = TRUE /\ UNCHANGED device
  /\ UNCHANGED <<lib, tty, isOpen, fd, leaked>>

LidarSetBaudrate(s) ==
  /\ lib = "lidar" /\ fd = "open"
  /\ settings' = s
  /\ \/ device' = LidarRate(s, device) /\ UNCHANGED faulted
     \/ faulted' = TRUE /\ UNCHANGED device
  /\ UNCHANGED <<lib, tty, isOpen, fd, leaked>>

-----------------------------------------------------------------------------
(* The Serial library on Windows.                                           *)

WindowsParity(parity) ==
  CASE parity = "none"  -> {}
    [] parity = "even"  -> {"PARENB"}
    [] parity = "odd"   -> {"PARENB", "PARODD"}
    [] parity = "mark"  -> {"PARENB", "CMSPAR", "PARODD"}
    [] parity = "space" -> {"PARENB", "CMSPAR"}

\* Every field of the DCB is assigned, the rate blindly.
WindowsFlags(s) ==
  [bits |-> s.bytesize, parity |-> WindowsParity(s.parity), cstopb |-> s.stopbits # "one",
   flow |-> s.flow, rate |-> s.baud, spd |-> FALSE]

\* reconfigurePort fails: at the DCB's reading or at the time-outs; or at its writing, when
\* the handle is closed but kept.
WindowsFails(s) ==
  /\ faulted' = TRUE
  /\ \/ fd' = "open" /\ device' \in {device, WindowsFlags(s)}
     \/ fd' = "closed" /\ UNCHANGED device

\* The port is opened exclusively: not while a handle of it is left behind.
WindowsOpen ==
  /\ lib = "windows" /\ ~isOpen
  /\ leaked' = IF fd = "open" THEN 1 ELSE leaked
  /\ \/ fd' = "none" /\ UNCHANGED <<isOpen, device, faulted>>
     \/ /\ leaked' = 0
        /\ \/ isOpen' = FALSE /\ WindowsFails(settings)
           \/ isOpen' = TRUE /\ fd' = "open" /\ faulted' = FALSE /\ device' = WindowsFlags(settings)
  /\ UNCHANGED <<lib, tty, settings>>

\* close throws if the handle was closed already: such a port stays open for good.
WindowsClose ==
  /\ lib = "windows" /\ isOpen /\ fd = "open"
  /\ isOpen' = FALSE /\ fd' = "none"
  /\ UNCHANGED <<lib, tty, leaked, settings, device, faulted>>

WindowsSet(s) ==
  /\ lib = "windows"
  /\ settings' = s
  /\ \/ isOpen /\ fd = "open" /\ device' = WindowsFlags(s) /\ UNCHANGED <<fd, faulted>>
     \/ isOpen /\ fd = "open" /\ WindowsFails(s)
     \/ (~isOpen \/ fd # "open") /\ UNCHANGED <<fd, device, faulted>>
  /\ UNCHANGED <<lib, tty, isOpen, leaked>>

-----------------------------------------------------------------------------
\* A setter of class Serial: it hands the value to the port's implementation, and takes no lock.
Set(which, s) ==
  \/ SerialSet(s) \/ WindowsSet(s)
  \/ which # "baud" /\ LidarSet(which, s)
  \/ which = "baud" /\ LidarSetBaudrate(s)

SettingsNext ==
  \/ SerialOpen \/ SerialClose \/ WindowsOpen \/ WindowsClose \/ LidarOpen \/ LidarClose
  \/ \E v \in Bytesizes : Set("bytesize", [settings EXCEPT !.bytesize = v])
  \/ \E v \in Parities  : Set("parity", [settings EXCEPT !.parity = v])
  \/ \E v \in Stopbits  : Set("stopbits", [settings EXCEPT !.stopbits = v])
  \/ \E v \in Flows     : Set("flow", [settings EXCEPT !.flow = v])
  \/ \E v \in Bauds     : Set("baud", [settings EXCEPT !.baud = v])

SettingsSpec == SettingsInit /\ [][SettingsNext]_settingsVars

-----------------------------------------------------------------------------
(* Properties.                                                              *)

\* The parity that the flags mean to the device.
ParityOf(flags) ==
  IF "PARENB" \notin flags THEN "none"
  ELSE IF "CMSPAR" \in flags THEN IF "PARODD" \in flags THEN "mark" ELSE "space"
  ELSE IF "PARODD" \in flags THEN "odd" ELSE "even"

ParityInForce == ParityOf(device.parity)

RateInForce == IF device.rate = 38400 /\ device.spd THEN CustomBaud ELSE device.rate

\* In an open port whose system calls succeeded, the settings the library reports are those
\* in force, after any sequence of changes, closes and opens, with three exceptions: even
\* and odd parity after mark or space parity; in the Serial library, rates once a custom
\* rate was used (it only takes effect at 38400, and stays); in the lidar's, a custom rate
\* of a device without termios2.
SettingsInForce ==
  isOpen /\ ~faulted =>
    /\ device.bits = settings.bytesize /\ device.flow = settings.flow
    /\ settings.stopbits # "onehalf" => device.cstopb = (settings.stopbits = "two")
    /\ ParityInForce = settings.parity
       \/ (settings.parity \in {"even", "odd"} /\ "CMSPAR" \in device.parity)
    /\ RateInForce = settings.baud
       \/ (lib = "serial" /\ device.spd)
       \/ (lib = "lidar" /\ ~tty /\ settings.baud = CustomBaud)

\* An open port has a descriptor, except on Windows after a change of its settings failed,
\* which closes the handle; and a descriptor is only forgotten by the Serial library and
\* after a configuration that failed. The lidar's port leaves none behind.
DescriptorsKept ==
  /\ isOpen => fd = "open" \/ (lib = "windows" /\ faulted)
  /\ lib = "lidar" => fd = (IF isOpen THEN "open" ELSE "none") /\ leaked = 0
  /\ fd # "none" /\ ~isOpen => faulted
=============================================================================
