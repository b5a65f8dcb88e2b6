--------------------------- MODULE DriversSerial -----------------------------
(***************************************************************************)
(* The drivers of instruments with a command language of their own that is *)
(* not SCPI, most of them on a serial line.                                *)
(***************************************************************************)
EXTENDS Programs, TLC

-----------------------------------------------------------------------------
(* Thorlabs TSP01 temperature and humidity probe.                          *)
TSP01_Open == Plain(<<"topen", "markOpen">>)
TSP01_Close == Plain(<<"markClosed", "tclose">>)
TSP01_Probe ==
  Each({"reset"}, <<"isOpen", "tell">> \o Ask) @@
  Each({"get_idn", "get_humidity"}, AskParsed) @@
  Each({"get_errors"}, Ask \o Ask) @@
  Each({"get_temperature"}, <<"valid">> \o AskParsed)
TSP01 == Driver("usbtmc", TRUE, TSP01_Open, TSP01_Close, Methods(TSP01_Probe))

-----------------------------------------------------------------------------
(* Wavelength TC Lab: opening is retried; a failed initialisation is rolled back. *)
TCLab_Open ==
  Guarded(<<"isClosed", "topen">>, <<"tell">> \o Ask \o <<"tell">>,
      <<"markOpen">>, Rollback(<<"tclose">>))
TCLab_Close == Plain(<<"markClosed", "tclose">>)
TCLab_CheckError == AskParsed
TCLab_Control ==
  Each({"reset"}, <<"tell", "tell">> \o Ask \o TCLab_CheckError) @@
  Each({"get_idn", "get_power_on", "get_temperature", "get_setpoint",
        "get_tec_current", "get_tec_voltage", "get_output_enabled",
        "get_condition_status"},
       AskParsed) @@
  Each({"set_power_on", "set_setpoint", "set_output_enabled"},
       <<"tell">> \o TCLab_CheckError) @@
  Each({"get_unit"}, Ask) @@
  Each({"set_unit"}, <<"valid", "tell">> \o TCLab_CheckError)
TCLab_Limits ==
  Each({"get_pid_parameters", "get_autotune_mode", "get_autotune_is_valid"},
       AskParsed) @@
  Each({"set_pid_parameters", "start_autotune", "abort_autotune"},
       <<"tell">> \o TCLab_CheckError) @@
  Each({"set_autotune_mode"}, <<"valid", "tell">> \o TCLab_CheckError) @@
  Each({"get_temperature_limit"}, AskParsed \o AskParsed) @@
  Each({"set_temperature_limit"}, <<"tell", "tell">> \o TCLab_CheckError)
TCLab_Voltage ==
  Each({"get_tec_current_limit"}, AskParsed \o AskParsed) @@
  Each({"set_tec_current_limit"}, <<"tell", "tell">> \o TCLab_CheckError) @@
  Each({"get_tec_voltage_limit"}, AskParsed) @@
  Each({"set_tec_voltage_limit"}, <<"tell">> \o TCLab_CheckError)
TCLab ==
  Driver("usbtmc", TRUE, TCLab_Open, TCLab_Close,
         Methods(TCLab_Control) \cup Methods(TCLab_Limits)
         \cup Methods(TCLab_Voltage))

-----------------------------------------------------------------------------
(* Teraxion TFN: every message is answered, and waited for without a timeout. *)
TFN_Open == Plain(<<"isClosed", "topen", "markOpen">>)
TFN_Close == Plain(<<"isOpen", "tclose", "markClosed">>)
TFN_Transfer == Ask
TFN_Identity ==
  Each({"get_firmware_version", "get_manufacturer_name", "get_model_number",
        "get_serial_number", "get_manufacturing_date"},
       <<"isOpen">> \o TFN_Transfer \o <<"verify">>) @@
  Each({"get_idn"}, <<"isOpen", "isOpen">> \o TFN_Transfer \o <<"verify",
        "isOpen">> \o TFN_Transfer \o <<"verify", "isOpen">> \o
        TFN_Transfer \o <<"verify", "isOpen">> \o TFN_Transfer \o
        <<"verify">>)
TFN_Status ==
  Each({"get_status", "get_frequency", "get_rtd_temperature",
        "get_startup_byte"},
       <<"isOpen">> \o TFN_Transfer \o <<"verify">>) @@
  Each({"reset"}, <<"isOpen", "tell">>) @@
  Each({"set_frequency", "enable_device", "disable_device",
        "enable_tecs_on_startup", "disable_tecs_on_startup"},
       <<"isOpen">> \o TFN_Transfer)
TFN_Settings ==
  Each({"get_nominal_settings", "get_channel_plan"},
       <<"isOpen">> \o TFN_Transfer \o <<"verify">>) @@
  Each({"save_nominal_settings"}, <<"isOpen">> \o TFN_Transfer) @@
  Each({"set_i2c_address"}, <<"isOpen", "tell">>)
TFN ==
  Driver("serial", FALSE, TFN_Open, TFN_Close,
         Methods(TFN_Identity) \cup Methods(TFN_Status)
         \cup Methods(TFN_Settings))

-----------------------------------------------------------------------------
(* Edwards TIC: even a command is a query; the reply is parsed once.       *)
TIC_Open == Plain(<<"isClosed", "topen", "markOpen">>)
TIC_Close == Plain(<<"isOpen", "tclose", "markClosed">>)
TIC_Request == AskParsed
TIC_Value == TIC_Request
TIC_Pumps ==
  Each({"get_idn", "get_tic_status", "turn_on_turbo_pump",
        "turn_off_turbo_pump", "turn_on_backing_pump", "turn_off_backing_pump"},
       TIC_Request) @@
  Each({"get_turbo_pump_state", "get_backing_pump_state",
        "get_turbo_pump_speed", "get_backing_pump_speed", "get_turbo_pump_power",
        "get_backing_pump_power"},
       TIC_Value)
TIC_System ==
  Each({"get_pressure", "get_relay_state", "get_system_state"}, TIC_Value) @@
  Each({"turn_on_relay", "turn_off_relay", "get_system_on_off_setup_config",
        "turn_on_system", "turn_off_system"},
       TIC_Request) @@
  Each({"set_system_on_off_setup_config"}, Ask)
TIC ==
  Driver("serial", TRUE, TIC_Open, TIC_Close,
         Methods(TIC_Pumps) \cup Methods(TIC_System))

-----------------------------------------------------------------------------
(* TimeBase DIM3000: discards what is in the buffer before every query.    *)
DIM3000_Open == Plain(<<"isClosed", "topen", "markOpen">>)
DIM3000_Close == Plain(<<"markClosed", "tclose">>)
DIM3000_WritePar == <<"isOpen", "tell">>
DIM3000_Query == <<"isOpen", "flush", "query", "line", "verify">>
DIM3000_Signal ==
  Each({"get_idn", "get_device_info", "get_init_data", "get_parameters"},
       DIM3000_Query) @@
  Each({"set_output_frequency", "set_sweep_start_frequency",
        "set_sweep_stop_frequency", "set_sweep_step_frequency",
        "set_sweep_step_time", "set_pulse_frequency", "set_pulse_duty_cycle",
        "set_fsk_frequency", "set_am_offset"},
       <<"valid">> \o DIM3000_WritePar) @@
  Each({"set_output_amplitude", "set_sweep_mode", "set_fm_input",
        "enable_fm_input", "disable_fm_input", "set_fm_deviation", "set_pulse_mode",
        "enable_pulse_mode", "disable_pulse_mode", "set_fsk_amplitude"},
       DIM3000_WritePar)
DIM3000 ==
  Driver("serial", TRUE, DIM3000_Open, DIM3000_Close, Methods(DIM3000_Signal))

-----------------------------------------------------------------------------
(* Thorlabs TC200: a command toggles the heater, so that the status is read first. *)
TC200_Open == Plain(<<"topen", "markOpen">>)
TC200_Close == Plain(<<"markClosed", "tclose">>)
TC200_Command == <<"isOpen", "query", "line", "verify">>
TC200_SetGain == <<"valid">> \o TC200_Command \o <<"verify">>
TC200_Heater ==
  Each({"get_idn", "get_status", "is_enabled", "has_alarm", "is_tuned",
        "disable", "get_temperature_setpoint", "get_temperature_actual",
        "get_temperature_limit", "get_power_limit"},
       TC200_Command) @@
  Each({"enable"}, TC200_Command \o <<"verify">> \o TC200_Command) @@
  Each({"enable_toggle"},
       TC200_Command \o <<"verify">> \o TC200_Command \o TC200_Command) @@
  Each({"disable_toggle"}, TC200_Command \o TC200_Command) @@
  Each({"set_temperature", "set_temperature_limit", "set_power_limit"},
       <<"valid">> \o TC200_Command \o <<"verify">>)
TC200_Tuning ==
  Each({"set_pid_gains"}, TC200_SetGain \o TC200_SetGain \o TC200_SetGain) @@
  Each({"get_pid_gains", "detune"}, TC200_Command) @@
  Each({"tune"}, TC200_Command \o <<"valid">> \o TC200_Command \o
        <<"valid">> \o TC200_Command) @@
  Each({"detune_toggle"}, TC200_Command \o TC200_Command)
TC200 ==
  Driver("serial", TRUE, TC200_Open, TC200_Close,
         Methods(TC200_Heater) \cup Methods(TC200_Tuning))

-----------------------------------------------------------------------------
(* SRS SIM922: a module of the SIM900, reached through that instrument's proxy. *)
SIM922_Diode ==
  Each({"get_id"}, <<"lib">>) @@
  Each({"get_voltage", "get_temperature", "is_excited"},
       <<"valid", "lib", "verify">>) @@
  Each({"set_excitation"}, <<"valid", "valid", "lib">>)
SIM922 == Driver("library", TRUE, BaseOpen, BaseClose, Methods(SIM922_Diode))

-----------------------------------------------------------------------------
(* Toptica DLC: a reply is a line and a prompt, read one after the other.  *)
DLC_Open ==
  Guarded(<<"topen", "reply">>, <<"line">>, <<"markOpen">>,
      Rollback(<<"tclose">>))
DLC_Close == Plain(<<"markClosed", "tclose">>)
DLC_Exchange == <<"query", "reply", "line", "line", "verify">>
DLC_Parameters ==
  Each({"get_timestamped_parameter", "get_parameter",
        "get_multiple_timestamped_parameters", "get_multiple_parameters"},
       DLC_Exchange)
DLC_Setting ==
  Each({"set_parameter", "set_multiple_parameters"},
       <<"valid">> \o DLC_Exchange)
DLC ==
  Driver("tcp", TRUE, DLC_Open, DLC_Close,
         Methods(DLC_Parameters) \cup Methods(DLC_Setting))

-----------------------------------------------------------------------------
(* Pololu Maestro: the error register is read after every command.         *)
Maestro_Open == Plain(<<"isClosed", "topen", "markOpen">>)
Maestro_Close == Plain(<<"isOpen", "tclose", "markClosed">>)
Maestro_GetErrors == <<"flush", "query", "read2">>
Maestro_Send == <<"tell">> \o Maestro_GetErrors \o <<"verify">>
Maestro_Query ==
  <<"query", "read1", "read1">> \o Maestro_GetErrors \o <<"verify">>
Maestro_Servo ==
  Each({"get_idn"}, <<"isOpen">>) @@
  Each({"set_target"}, <<"isOpen", "valid">> \o Maestro_Send) @@
  Each({"get_targets"}, <<"valid">>) @@
  Each({"get_position"}, <<"isOpen", "valid">> \o Maestro_Query) @@
  Each({"set_speed", "set_acceleration"},
       <<"isOpen", "valid", "valid">> \o Maestro_Send) @@
  Each({"go_home"}, <<"isOpen">> \o Maestro_Send)
Maestro_Target ==
  Each({"set_min_target", "get_min_target", "set_max_target",
        "get_max_target", "set_max", "set_min", "move_up", "move_down"},
       <<"valid">>) @@
  Each({"set_target_value"}, <<"isOpen", "valid">> \o Maestro_Send) @@
  Each({"get_value"}, <<"isOpen", "valid">> \o Maestro_Query)
Maestro ==
  Driver("serial", TRUE, Maestro_Open, Maestro_Close,
         Methods(Maestro_Servo) \cup Methods(Maestro_Target))

-----------------------------------------------------------------------------
(* Quantum Composers 9530: every command is answered with "ok" or an error. *)
PulseGenerator9530_Open == Plain(<<"topen", "markOpen">>)
PulseGenerator9530_Close == Plain(<<"markClosed", "tclose">>)
PulseGenerator9530_Query == <<"isOpen", "query", "line", "verify">>
PulseGenerator9530_Reference ==
  Each({"get_idn", "reset", "get_num_channels", "get_refclk_source",
        "is_refclk_pll_locked", "get_refclk_rate", "get_refclk_level",
        "get_output_enabled", "set_output_enabled"},
       PulseGenerator9530_Query) @@
  Each({"set_refclk_source"},
       <<"isOpen", "valid", "query", "line", "verify">>) @@
  Each({"set_refclk_rate", "set_refclk_level"},
       <<"valid">> \o PulseGenerator9530_Query) @@
  Each({"set_refclk_external"}, <<"isOpen", "valid", "query", "line",
        "verify", "valid">> \o PulseGenerator9530_Query \o <<"valid">> \o
        PulseGenerator9530_Query)
PulseGenerator9530_Period ==
  Each({"get_t0_period", "get_t0_mode", "get_t0_burst_count",
        "get_trigger_mode", "get_trigger_edge", "get_trigger_level"},
       PulseGenerator9530_Query) @@
  Each({"set_t0_period", "set_t0_burst_count", "set_trigger_level"},
       <<"valid">> \o PulseGenerator9530_Query) @@
  Each({"set_t0_mode", "set_trigger_mode", "set_trigger_edge"},
       <<"isOpen", "valid", "query", "line", "verify">>) @@
  Each({"get_t0_duty_cycle"},
       PulseGenerator9530_Query \o <<"query", "line", "verify">>) @@
  Each({"set_t0_duty_cycle"}, <<"valid", "valid">> \o
        PulseGenerator9530_Query \o <<"query", "line", "verify">>)
PulseGenerator9530_Channel ==
  Each({"get_channel_enabled", "set_channel_enabled", "get_channel_width",
        "get_channel_delay", "get_channel_mode", "get_channel_burst_count"},
       <<"valid">> \o PulseGenerator9530_Query) @@
  Each({"set_channel_width", "set_channel_delay", "set_channel_burst_count"},
       <<"valid", "valid">> \o PulseGenerator9530_Query) @@
  Each({"set_channel_mode"},
       <<"valid", "isOpen", "valid", "query", "line", "verify">>)
PulseGenerator9530_Output ==
  Each({"get_channel_duty_cycle"}, <<"valid">> \o
        PulseGenerator9530_Query \o <<"query", "line", "verify">>) @@
  Each({"set_channel_duty_cycle"}, <<"valid", "valid", "valid">> \o
        PulseGenerator9530_Query \o <<"query", "line", "verify">>) @@
  Each({"get_output_driver", "get_output_amplitude", "get_output_inverted",
        "set_output_inverted"},
       <<"valid">> \o PulseGenerator9530_Query) @@
  Each({"set_output_driver"},
       <<"valid", "isOpen", "valid", "query", "line", "verify">>) @@
  Each({"set_output_amplitude"},
       <<"valid", "valid">> \o PulseGenerator9530_Query) @@
  Each({"set_display_enabled"}, PulseGenerator9530_Query)
PulseGenerator9530 ==
  Driver("serial", TRUE, PulseGenerator9530_Open, PulseGenerator9530_Close,
         Methods(PulseGenerator9530_Reference)
         \cup Methods(PulseGenerator9530_Period)
         \cup Methods(PulseGenerator9530_Channel)
         \cup Methods(PulseGenerator9530_Output))

-----------------------------------------------------------------------------
(* Cobolt 06-01 laser: discards what is in the buffer before every query.  *)
Cobolt_Open == Plain(<<"topen", "flush", "markOpen">>)
Cobolt_Close == Plain(<<"markClosed", "tclose">>)
Cobolt_Query == <<"isOpen", "flush", "query", "line", "verify">>
Cobolt_Laser ==
  Each({"reset", "get_idn"}, Cobolt_Query)
Cobolt_Power ==
  Each({"get_laser_on_state", "set_laser_on_state", "get_operating_hours",
        "get_interlock_state", "get_output_power_setpoint",
        "set_output_power_setpoint", "get_output_power", "get_drive_current",
        "set_drive_current", "set_constant_power_mode", "set_constant_current_mode",
        "get_fault", "clear_fault", "set_modulation_mode",
        "get_digital_modulation_state", "set_digital_modulation_state",
        "get_analog_modulation_state", "set_analog_modulation_state",
        "get_operating_mode", "get_analog_low_impedance_state",
        "set_analog_low_impedance_state", "get_autostart_state",
        "set_autostart_state"},
       Cobolt_Query)
Cobolt ==
  Driver("serial", TRUE, Cobolt_Open, Cobolt_Close,
         Methods(Cobolt_Laser) \cup Methods(Cobolt_Power))

-----------------------------------------------------------------------------
(* JPE CPSC: commands go through the pipes of a helper program.            *)
CPSC_Open == Plain(<<"isClosed", "topen", "markOpen">>)
CPSC_Close == Plain(<<"isOpen", "tclose", "markClosed">>)
CPSC_Request == <<"lib", "lib", "verify">>
CPSC_Module ==
  Each({"get_idn", "get_info_all_modules", "get_info_module",
        "request_fail_safe_state", "move", "stop", "enable_scan_mode",
        "use_external_input"},
       <<"isOpen">> \o CPSC_Request)
CPSC_Position ==
  Each({"get_current_position", "get_current_position_of_all_3_channels",
        "set_negative_end_stop", "set_positive_end_stop", "read_negative_end_stop",
        "read_positive_end_stop", "reset_end_stops"},
       <<"isOpen">> \o CPSC_Request)
CPSC_Counter ==
  Each({"set_excitation_duty_cycle", "read_excitation_duty_cycle",
        "save_rsm_settings", "get_current_counter_value", "reset_counter_value",
        "get_current_encoder_signal_value", "auto_oem_calibration"},
       <<"isOpen">> \o CPSC_Request)
CPSC_Servo ==
  Each({"request_calibration_values", "set_detector_gain",
        "set_upper_threshold", "set_lower_threshold", "save_detector_settings",
        "enable_servodrive", "disable_servodrive", "move_to_setpoint",
        "emergency_stop", "get_status_position_control"},
       <<"isOpen">> \o CPSC_Request)
CPSC ==
  Driver("library", TRUE, CPSC_Open, CPSC_Close,
         Methods(CPSC_Module) \cup Methods(CPSC_Position)
         \cup Methods(CPSC_Counter) \cup Methods(CPSC_Servo))

-----------------------------------------------------------------------------
(* InstruTech AGC302 gauge controller.                                     *)
AGC302_Open == Plain(<<"topen", "markOpen">>)
AGC302_Close == Plain(<<"markClosed", "tclose">>)
AGC302_Query == <<"isOpen", "query", "line", "verify">>
AGC302_Gauge ==
  Each({"read_gauge"}, AGC302_Query \o <<"verify">>) @@
  Each({"read_pressure_unit"}, AGC302_Query) @@
  Each({"set_pressure_unit"}, <<"valid">> \o AGC302_Query \o <<"verify">>)
AGC302 ==
  Driver("serial", TRUE, AGC302_Open, AGC302_Close, Methods(AGC302_Gauge))

-----------------------------------------------------------------------------
(* The drivers of this module.                                             *)
DriversSerialTable ==
  [TSP01 |-> TSP01, TCLab |-> TCLab, TFN |-> TFN, TIC |-> TIC,
   DIM3000 |-> DIM3000, TC200 |-> TC200, SIM922 |-> SIM922, DLC |-> DLC,
   Maestro |-> Maestro, PulseGenerator9530 |-> PulseGenerator9530,
   Cobolt |-> Cobolt, CPSC |-> CPSC, AGC302 |-> AGC302]
==============================================================================
