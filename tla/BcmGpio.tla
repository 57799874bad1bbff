------------------------------ MODULE BcmGpio -------------------------------
(***************************************************************************)
(* The GPIO pins of the Pi (src/bcm_gpio.c, over include/iomem.h), set by  *)
(* drivers that have claimed their hardware (HwClaim).  A register holds a *)
(* field each of several pins; gpioSetAlternate() and gpioSetPull() read   *)
(* it, replace one field and write it back, with no lock of their own;     *)
(* gpioSetLevel() writes one bit of a set or a clear register.             *)
(***************************************************************************)
EXTENDS HwClaim

CONSTANTS PinsOf,    \* PinsOf[name]: the pins of the hardware of that name
          Settings,  \* <<kind, pin, value>> that drivers ask for: "alt", "pull", "level"
          Idle       \* no call under way

Pins == UNION {PinsOf[n] : n \in Names}

\* Pins per register; a pin's field is the (pin % PerReg)-th.
PerReg == [alt |-> 10, pull |-> 16, level |-> 32]
RegOf(kind, pin) == <<kind, pin \div PerReg[kind]>>
Fields == (DOMAIN PerReg) \X Pins

ASSUME SettingsAssumption == \A s \in Settings : s[1] \in DOMAIN PerReg

\* Pins of different hardware are in different registers, where a register is
\* read and written back; what the claims alone cannot guard.
Separate ==
    \A m, n \in Names : m # n =>
        \A p \in PinsOf[m], q \in PinsOf[n], kind \in {"alt", "pull"} : RegOf(kind, p) # RegOf(kind, q)

VARIABLES field,  \* field[<<kind, pin>>], in the register of that kind
          access, \* access[c]: the call of c's task that has read the register: what it
                  \* sets and the word it has read
          latest  \* latest[<<kind, pin>>]: what was asked for last

gpioVars == <<field, access, latest>>
allVars == <<claimVars, gpioVars>>

GpioInit ==
    /\ ClaimInit
    /\ field = [f \in Fields |-> 0] /\ latest = field
    /\ access = [c \in Claims |-> Idle]

\* The task of a claim that is held, between two calls.
Holds(c) == claimPc[c] = "idle" /\ c \in listed
Asks(c, s) == Holds(c) /\ access[c] = Idle /\ s[2] \in PinsOf[hc_Name[c]]

\* mmio_read32() of the register.
ReadReg(c) ==
    /\ \E s \in Settings :
          /\ Asks(c, s) /\ s[1] # "level"
          /\ access' = [access EXCEPT ![c] =
                [sets |-> s, word |-> [p \in {q \in Pins : RegOf(s[1], q) = RegOf(s[1], s[2])}
                                          |-> field[<<s[1], p>>]]]]
    /\ UNCHANGED <<claimVars, field, latest>>

\* (word & clear_mask) | write_mask.
Updated_NoMask(word, pin, value) == [p \in DOMAIN word |-> IF p = pin THEN value ELSE 0]
Updated(word, pin, value) == [word EXCEPT ![pin] = value]

\* mmio_write32() of the whole of it.
WriteReg(c) ==
    /\ access[c] # Idle
    /\ LET kind == access[c].sets[1]
           pin  == access[c].sets[2]
           new  == Updated(access[c].word, pin, access[c].sets[3])
       IN  /\ field' = [f \in Fields |-> IF f[1] = kind /\ f[2] \in DOMAIN new THEN new[f[2]]
                                         ELSE field[f]]
           /\ latest' = [latest EXCEPT ![<<kind, pin>>] = access[c].sets[3]]
    /\ access' = [access EXCEPT ![c] = Idle]
    /\ UNCHANGED claimVars

\* gpioSetLevel(): GPSET or GPCLR take the pins whose bit is 1, and leave the others.
SetLevel(c) ==
    /\ \E s \in Settings :
          /\ Asks(c, s) /\ s[1] = "level"
          /\ field' = [field EXCEPT ![<<s[1], s[2]>>] = s[3]]
          /\ latest' = [latest EXCEPT ![<<s[1], s[2]>>] = s[3]]
    /\ UNCHANGED <<claimVars, access>>

\* A task releases its claim between two calls.
GpioNext ==
    \E c \in Claims :
        \/ access[c] = Idle /\ Step(c) /\ UNCHANGED gpioVars
        \/ ReadReg(c) \/ WriteReg(c) \/ SetLevel(c)

GpioSpec == GpioInit /\ [][GpioNext]_allVars

-----------------------------------------------------------------------------
\* Every pin is as it was set last: no call undoes what another call has set, on the
\* same pin by an earlier holder or on a neighbour in the same register.  It takes the
\* claim, and pins of different hardware in different registers.
PinsKept == field = latest
=============================================================================
