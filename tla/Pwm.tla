---------------------------------- MODULE Pwm ----------------------------------
(***************************************************************************)
(* The driver of the pins that drive the sensor (bsp/driver/pwm/           *)
(* drv_pwm.cpp) and the part of lib/common/PwmLib.c it uses: the reference *)
(* at P1.2 and the heater at P1.4, each an output or the output of a pair  *)
(* of PWM channels, and the drive of the measurement at P0.0.              *)
(*                                                                         *)
(* Only the foreground calls it, so a command is a function from the       *)
(* registers to the registers.  PWM_Freq switches the outputs off and on   *)
(* again around its work; that and PwmLoad leave nothing behind.           *)
(***************************************************************************)
EXTENDS Naturals

Channels == {"RHREF", "HEAT"}

Registers == [GPCON : SUBSET Channels,     \* pins in PWM mode
              GPOUT : SUBSET Channels,     \* outputs that are set
              GPOEN : SUBSET Channels,     \* and enabled
              GP0   : BOOLEAN,             \* P0.0
              LEN   : [Channels -> Nat],
              COM1  : [Channels -> Nat],
              COM2  : [Channels -> Nat]]

Zero == [ch \in Channels |-> 0]

\* What reset leaves.
Reset == [GPCON |-> {}, GPOUT |-> {}, GPOEN |-> {}, GP0 |-> FALSE,
          LEN |-> Zero, COM1 |-> Zero, COM2 |-> Zero]

\* Refuses a high side that is shorter than the low side.
PwmTime(r, ch, uiFreq, uiPWMH_High, uiPWML_High) ==
    IF uiPWMH_High < uiPWML_High THEN r
    ELSE [r EXCEPT !.LEN[ch] = uiFreq, !.COM1[ch] = uiPWMH_High, !.COM2[ch] = uiPWML_High]

Clamped(duty_cycle, freq) == IF duty_cycle > freq THEN freq ELSE duty_cycle

PWM_Freq(r, ch, freq) ==
    IF freq = r.LEN[ch] THEN r ELSE PwmTime(r, ch, freq, Clamped(r.COM1[ch], freq), 1)

PWM_DutyCycle(r, ch, duty_cycle) ==
    IF duty_cycle = r.COM1[ch] THEN r
    ELSE PwmTime(r, ch, r.LEN[ch], Clamped(duty_cycle, r.LEN[ch]), 1)

\* (mutant) the pin stays with the PWM
pins_disable_not(r, ch) == r

\* pwm_heat_pins_disable and pwm_rhref_pins_disable.
pins_disable(r, ch) ==
    IF ch \in r.GPCON THEN [r EXCEPT !.GPCON = @ \ {ch}, !.GPOEN = @ \cup {ch}] ELSE r

\* pwm_heat_pins_enable and pwm_rhref_pins_enable.
pins_enable(r, ch) == [r EXCEPT !.GPCON = @ \cup {ch}]

\* _drv_ioctl: a command is its name, the channel and the argument.
ioctl(r, c) ==
    CASE c.cmd = "FORCE_H"     -> [pins_disable(r, c.ch) EXCEPT !.GPOUT = @ \cup {c.ch}]
      [] c.cmd = "FREQ"        -> PWM_Freq(pins_enable(r, c.ch), c.ch, c.arg)
      [] c.cmd = "DUTY_CYCLE"  -> PWM_DutyCycle(pins_enable(r, c.ch), c.ch, c.arg)
      [] c.cmd = "MEASURE_ON"  -> [r EXCEPT !.GP0 = TRUE]
      [] c.cmd = "MEASURE_OFF" -> [r EXCEPT !.GP0 = FALSE]

\* A command to the heater's channel, as the application gives it.
Heat(r, name, val) == ioctl(r, [cmd |-> name, ch |-> "HEAT", arg |-> val])

\* _drv_devinit makes both pins outputs; _drv_devopen forces them.
Opened ==
    LET forced == ioctl([Reset EXCEPT !.GPOEN = Channels],
                        [cmd |-> "FORCE_H", ch |-> "RHREF", arg |-> 0])
    IN Heat(Heat(forced, "FORCE_H", 0), "MEASURE_ON", 0)

\* What the heater pin and the drive are seen to do.
HeatHigh(r)  == "HEAT" \notin r.GPCON /\ "HEAT" \in r.GPOEN \cap r.GPOUT
Measuring(r) == r.GP0
================================================================================
