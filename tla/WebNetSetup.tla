------------------------------ MODULE WebNetSetup ------------------------------
(***************************************************************************)
(* The sketch OldStuff/Web_Net_Setup on its web server: the network        *)
(* settings in the EEPROM, the form that shows them, and the request that  *)
(* changes them, with the power lost at any time.                          *)
(*                                                                         *)
(* The settings are the bytes of config_t in their order, the EEPROM is    *)
(* written byte by byte, and the network is set up with what the settings  *)
(* are when the board starts.                                              *)
(***************************************************************************)
EXTENDS WebServer, FiniteSets

CONSTANTS
    MaxEvents,          \* bound on the clients and losses of power together
    MaxLosses,          \* bound on the losses of power
    NameLen, ValueLen   \* NAMELEN and VALUELEN of setupNetHTML()

VARIABLES
    ram,              \* eeprom_config
    eeprom,
    tail,             \* url_tail
    at,               \* the byte EEPROM_writeAnything() writes next
    clients, losses   \* how many there were

settings == <<ram, eeprom, tail, at>>
setupVars == <<webVars, settings, clients, losses>>

-------------------------------------------------------------------------------
(* struct config_t *)

Bytes == 0..26
ConfigSet == 0
UseDhcp == 1
PortLow == 25
PortHigh == 26

Blank == [i \in Bytes |-> 255]

(* set_EEPROM_Default() *)
Default == [i \in Bytes |->
    <<1, 0, 60, 222, 173, 190, 239, 254, 237, 192, 168, 0, 111, 192, 168, 0, 254,
      255, 255, 255, 0, 192, 168, 0, 254, 80, 0>>[i + 1]]

(* Mutant: subnet and gateway come in the order of config_t.               *)
ByteOfInOrder(n) == IF n <= 21 THEN n + 3 ELSE IF n = 23 THEN UseDhcp ELSE 2

(* The byte of the parameter with this number, but for the port. *)
ByteOf(n) ==
    CASE n <= 9 -> n + 3
      [] n \in 10..13 -> n + 7     \* the subnet lies behind the gateway
      [] n \in 14..17 -> n - 1
      [] n \in 18..21 -> n + 3
      [] n = 23 -> UseDhcp
      [] n = 24 -> 2

-------------------------------------------------------------------------------
(* nextURLparam() *)

(* The digits as they are printed, and those that only are read.           *)
HexDigits == <<"0", "1", "2", "3", "4", "5", "6", "7", "8", "9", "A", "B", "C", "D", "E", "F",
               "a", "b", "c", "d", "e", "f">>

DigitsOf(base) == {HexDigits[i] : i \in 1..(IF base = 16 THEN 22 ELSE 10)}

ValueOf(c) ==
    LET i == CHOOSE i \in 1..22 : HexDigits[i] = c
    IN IF i > 16 THEN i - 7 ELSE i - 1

(* The digits a text begins with, in an int or a long: the names and the   *)
(* values are too short for more than its low word to matter.              *)
Unsigned(text, base) ==
    LET n == RunOf(text, 1, DigitsOf(base))
        value[k \in 0..n] == IF k = 0 THEN 0 ELSE (value[k - 1] * base + ValueOf(text[k])) % 65536
    IN value[n]

White == {" ", "\t", "\n", "\f", CR}

(* atoi(), and strtol() with base 16, which takes "0x" in front as well.   *)
Number(text, base) ==
    LET blanks == RunOf(text, 1, White)
        sign == IF blanks < Len(text) /\ text[blanks + 1] \in {"+", "-"} THEN 1 ELSE 0
        i == blanks + sign
        prefix == IF /\ base = 16 /\ i + 2 <= Len(text)
                     /\ text[i + 1] = "0" /\ text[i + 2] \in {"x", "X"} THEN 2 ELSE 0
        n == Unsigned(Rest(text, i + prefix), base)
    IN IF sign = 1 /\ text[i] = "-" THEN (65536 - n) % 65536 ELSE n

(* The character of a code: what a number can consist of is told apart.    *)
Character(v) ==
    CASE v \in 48..57 -> HexDigits[v - 47]
      [] v \in 65..70 -> HexDigits[v - 54]
      [] v \in 97..102 -> HexDigits[v - 80]
      [] v \in 9..13 \cup {32} -> " "
      [] v = 43 -> "+"
      [] v = 45 -> "-"
      [] v = 88 -> "X"
      [] v = 120 -> "x"
      [] OTHER -> "other"

(* strtoul() of the two characters behind a "%", whatever they are. *)
Coded(h, l) == Character(Number(<<h, l>>, 16) % 256)

(* A text without its codes; a code that is cut off ends it. *)
Decoded(text) ==
    LET from[i \in 1..(Len(text) + 1)] ==
            IF i > Len(text) THEN <<>>
            ELSE IF text[i] # "%" THEN <<IF text[i] = "+" THEN " " ELSE text[i]>> \o from[i + 1]
            ELSE IF i + 2 > Len(text) THEN <<>>
            ELSE <<Coded(text[i + 1], text[i + 2])>> \o from[i + 3]
    IN from[1]

Fitting(text, len) == SubSeq(text, 1, IF Len(text) < len THEN Len(text) ELSE len - 1)

(* How many characters come before a sign that ends a name or a value:    *)
(* one of the two behind a "%" does not.                                   *)
Before(text, signs) ==
    LET coded[i \in 0..Len(text)] ==     \* how many more belong to a code
            IF i = 0 THEN 0
            ELSE IF coded[i - 1] > 0 THEN coded[i - 1] - 1
            ELSE IF text[i] = "%" THEN 2 ELSE 0
        Ends(n) == n < Len(text) => coded[n] = 0 /\ text[n + 1] \in signs
    IN CHOOSE n \in 0..Len(text) : Ends(n) /\ \A k \in 0..(n - 1) : ~Ends(k)

(* A name and a value without what does not fit, and the tail behind them. *)
NextUrlParam(text) ==
    LET name == Before(text, {"=", "&"})
        pair == IF name < Len(text) /\ text[name + 1] = "="
                THEN name + 1 + Before(Rest(text, name + 1), {"&"}) ELSE name
    IN [name |-> Fitting(Decoded(SubSeq(text, 1, name)), NameLen),
        value |-> Fitting(Decoded(SubSeq(text, name + 2, pair)), ValueLen),
        tail |-> Rest(text, pair + 1)]

-------------------------------------------------------------------------------
(* setupNetHTML() *)

(* One parameter; one that is no number has number 0. *)
Assigned(config, name, value) ==
    LET n == Number(name, 10) % 256
        v == Number(value, IF n <= 5 THEN 16 ELSE 10)
    IN IF n > 24 THEN config
       ELSE IF n = 22 THEN [config EXCEPT ![PortLow] = v % 256, ![PortHigh] = v \div 256]
       ELSE [config EXCEPT ![ByteOf(n)] = v % 256]

(* A number as it is printed, without zeros in front. *)
Printed(n, base) ==
    LET digits[k \in 0..n] ==
            (IF k < base THEN <<>> ELSE digits[k \div base]) \o <<HexDigits[(k % base) + 1]>>
    IN digits[n]

(* The fields of the form in the order of their numbers: the loops that    *)
(* print the bytes of an address, with the name of the first.              *)
FieldByte(n) ==
    CASE n \in 0..5 -> 3 + n              \* mac
      [] n \in 6..9 -> 9 + (n - 6)        \* ip
      [] n \in 10..13 -> 17 + (n - 10)    \* subnet
      [] n \in 14..17 -> 13 + (n - 14)    \* gateway
      [] n \in 18..21 -> 21 + (n - 18)    \* dns_server
      [] n = 24 -> 2                      \* dhcp_refresh_minutes

Shown(config, n) ==
    IF n <= 5 THEN Printed(config[FieldByte(n)], 16)
    ELSE IF n = 22 THEN Printed(config[PortLow] + 256 * config[PortHigh], 10)
    ELSE IF n = 23 THEN IF config[UseDhcp] = 1 THEN <<"1">> ELSE <<"0">>
    ELSE Printed(config[FieldByte(n)], 10)

(* What the browser sends if the form is submitted as it is shown.         *)
Form(config) ==
    LET part[n \in 0..24] ==
            (IF n = 0 THEN <<>> ELSE part[n - 1] \o <<"&">>)
            \o Printed(n, 10) \o <<"=">> \o Shown(config, n)
    IN part[24]

-------------------------------------------------------------------------------
Setup == 2     \* the number of setupNet.html among the commands

(* The names and values of the form fit where they are read into, and its  *)
(* longest URL into the buffer: 158 characters of parameters behind a      *)
(* slash, the name of the page and a question mark.                        *)
ASSUME FormAssumption ==
    /\ NameLen \in Nat /\ NameLen > 2 /\ ValueLen \in Nat /\ ValueLen > 5
    /\ Setup \in DOMAIN Commands /\ Len(Commands[Setup]) + 2 + 158 < BuffLen

WantsPage == type # 2     \* not WebServer::HEAD

(* A request with parameters: each of them counts at once, and when there  *)
(* are no more, the settings are written.                                  *)
Submits ==
    /\ pc = "command" /\ Called = Setup /\ WantsPage /\ UrlTail(request) # <<>>
    /\ pc' = "parameters" /\ tail' = UrlTail(request)
    /\ UNCHANGED <<try, conn, asked, sent, type, request, complete, credentials,
                   ram, eeprom, at, clients, losses>>

TakesParameter ==
    /\ pc = "parameters" /\ tail # <<>>
    /\ LET p == NextUrlParam(tail)
       IN ram' = Assigned(ram, p.name, p.value) /\ tail' = p.tail
    /\ UNCHANGED <<webVars, eeprom, at, clients, losses>>

StartsStoring ==
    /\ pc = "parameters" /\ tail = <<>>
    /\ pc' = "storing" /\ at' = 0
    /\ UNCHANGED <<try, conn, asked, sent, type, request, complete, credentials,
                   ram, eeprom, tail, clients, losses>>

(* A request that only shows a page. *)
ShowsPage ==
    /\ pc = "command" /\ (Called = Setup /\ WantsPage => UrlTail(request) = <<>>)
    /\ CommandReturns
    /\ UNCHANGED <<settings, clients, losses>>

(* Mutant: EEPROM_writeAnything() stops one byte too early. *)
LastByteEarly == 25

LastByte == 26

(* EEPROM.write() of one byte; after the last one setupNetHTML() shows the *)
(* form, or the server starts.                                             *)
WritesByte ==
    /\ pc \in {"storing", "defaults"}
    /\ eeprom' = [eeprom EXCEPT ![at] = ram[at]]
    /\ at' = (at + 1) % 27
    /\ IF at < LastByte
       THEN UNCHANGED <<pc, try, conn, asked, sent, type, request, complete, credentials>>
       ELSE IF pc = "storing" THEN CommandReturns
       ELSE pc' = "idle" /\ UNCHANGED <<try, conn, asked, sent, type, request, complete, credentials>>
    /\ UNCHANGED <<ram, tail, clients, losses>>

(* setup() and read_EEPROM_Settings(), with the button held or not. *)
Starts ==
    /\ pc = "off"
    /\ \E button \in BOOLEAN :
          IF eeprom[ConfigSet] # 1 \/ button
          THEN ram' = Default /\ pc' = "defaults"
          ELSE ram' = eeprom /\ pc' = "idle"
    /\ at' = 0
    /\ UNCHANGED <<try, conn, asked, sent, type, request, complete, credentials,
                   eeprom, tail, clients, losses>>

(* The power is lost, or the button of the board is pressed. *)
LosesPower ==
    /\ pc # "off" /\ pc' = "off"
    /\ losses < MaxLosses /\ clients + losses < MaxEvents /\ losses' = losses + 1
    /\ conn' = Reset(conn) /\ credentials' = <<>> /\ type' = 0 /\ tail' = <<>>
    /\ UNCHANGED <<try, asked, sent, request, complete, ram, eeprom, at, clients>>

Serves ==
    /\ clients + losses < MaxEvents /\ clients' = clients + 1
    /\ Connects
    /\ UNCHANGED <<settings, losses>>

ReadsOn == Reads /\ UNCHANGED <<settings, clients, losses>>

SetupInit ==
    /\ pc = "off" /\ try = 1 /\ conn = [pushback |-> <<>>, input |-> <<>>, client |-> "none"]
    /\ asked = (CHOOSE r \in Requests : TRUE) /\ sent = <<>>
    /\ type = 0 /\ request = <<>> /\ complete = TRUE /\ credentials = <<>>
    /\ ram = [i \in Bytes |-> 0] /\ eeprom = Blank /\ tail = <<>> /\ at = 0
    /\ clients = 0 /\ losses = 0

Works == ReadsOn \/ Submits \/ TakesParameter \/ StartsStoring \/ ShowsPage \/ WritesByte \/ Starts

SetupNext == Works \/ Serves \/ LosesPower

SetupSpec == SetupInit /\ [][SetupNext]_setupVars

-------------------------------------------------------------------------------
(* Properties *)

(* Between two requests the board works with what it will work with after  *)
(* the next start.                                                         *)
SettingsStored == pc = "idle" => eeprom = ram

(* What setupNetHTML() makes of these parameters, which have no codes. *)
Parameters(config, text) ==
    LET many == Cardinality({k \in 0..(Len(text) - 1) : k = 0 \/ text[k] = "&"})
        param[k \in 1..many] == NextUrlParam(IF k = 1 THEN text ELSE param[k - 1].tail)
        after[k \in 0..many] ==
            IF k = 0 THEN config ELSE Assigned(after[k - 1], param[k].name, param[k].value)
    IN after[many]

(* The form shows and names each of the settings so that sending it        *)
(* unchanged changes nothing, and its URL fits into the buffer.            *)
FormUnchanged ==
    pc = "idle" =>
        LET after == Parameters(ram, Form(ram))
        IN /\ Len(Commands[Setup]) + 2 + Len(Form(ram)) < BuffLen
           /\ \A i \in Bytes \ {UseDhcp} : after[i] = ram[i]
           /\ after[UseDhcp] = 1 <=> ram[UseDhcp] = 1

(* "This settings are used when no config is present"                     *)
(* (Web_Net_Setup.pde:107): a board that nobody has set up yet starts with *)
(* the default settings.                                                   *)
FirstStartsDefault == pc = "idle" /\ clients = 0 => ram = Default
===============================================================================
