---------------------------- MODULE DriversScpi ------------------------------
(***************************************************************************)
(* The drivers of instruments that speak SCPI: their methods as programs.  *)
(* A section lists the methods of one stretch of a class by name; a method *)
(* that takes different steps depending on its arguments or on a reply has *)
(* one entry for each.                                                     *)
(***************************************************************************)
EXTENDS Programs, TLC

-----------------------------------------------------------------------------
(* Tektronix AFG31000: only an OSError of the first write is rolled back.  *)
AFG31000_Open ==
  Guarded(<<"topen">>, <<"tell">>, <<"markOpen">>, Except({"os"}, <<"tclose">>,
      Faults))
AFG31000_Close == Plain(<<"markClosed", "tclose">>)
AFG31000_CheckError == Ask \o Ask \o <<"verify">>
AFG31000_Output ==
  Each({"reset"}, <<"tell", "tell">> \o AFG31000_CheckError) @@
  Each({"get_idn", "get_external_reference_enabled"}, AskParsed) @@
  Each({"set_external_reference_enabled"},
       <<"tell">> \o AFG31000_CheckError) @@
  Each({"get_output_enabled", "get_waveform", "get_sweep_enabled"},
       <<"valid">> \o AskParsed) @@
  Each({"set_output_enabled", "set_waveform"},
       <<"valid", "tell">> \o AFG31000_CheckError)
AFG31000_Signal ==
  Each({"get_continuous_frequency", "get_pulse_duty_cycle", "get_pulse_delay",
        "get_burst_mode"},
       <<"valid">> \o AskParsed) @@
  Each({"set_continuous_frequency", "set_amplitude", "set_pulse_duty_cycle"},
       <<"valid", "tell", "tell">> \o AFG31000_CheckError) @@
  Each({"get_amplitude"}, <<"valid">> \o AskParsed \o AskParsed) @@
  Each({"set_pulse_delay", "set_burst_mode"},
       <<"valid", "tell">> \o AFG31000_CheckError)
AFG31000_Burst ==
  Each({"get_burst_count", "get_burst_enabled", "get_output_load_impedance",
        "get_output_inverted"},
       <<"valid">> \o AskParsed) @@
  Each({"set_burst_count", "set_burst_enabled", "set_trigger_edge",
        "set_output_load_impedance"},
       <<"valid", "tell">> \o AFG31000_CheckError) @@
  Each({"get_external_trigger_enabled", "get_trigger_edge"}, AskParsed) @@
  Each({"set_external_trigger_enabled"},
       <<"tell">> \o AFG31000_CheckError)
AFG31000_Display ==
  Each({"set_output_inverted"},
       <<"valid", "tell">> \o AFG31000_CheckError) @@
  Each({"set_display_brightness"}, <<"tell">> \o AFG31000_CheckError)
AFG31000 ==
  Driver("tcp", TRUE, AFG31000_Open, AFG31000_Close,
         Methods(AFG31000_Output) \cup Methods(AFG31000_Signal)
         \cup Methods(AFG31000_Burst) \cup Methods(AFG31000_Display))

-----------------------------------------------------------------------------
(* Tektronix AWG5014: waits for completion with the timeout swallowed.     *)

\* Mutants: open() and close() in the wrong order.
AWG5014_Open_MarksFirst == Plain(<<"isClosed", "markOpen", "topen">>)
AWG5014_Close_TransportFirst == Plain(<<"isOpen", "tclose", "markClosed">>)

AWG5014_Open == Plain(<<"isClosed", "topen", "markOpen">>)
AWG5014_Close == Plain(<<"isOpen", "markClosed", "tclose">>)
AWG5014_CheckError == <<"flush">> \o Ask \o <<"verify">>
AWG5014_Waiting ==
  [wait_and_clear |-> Guarded(<<"tell">>, <<"tell">>, <<"flush">>,
     Rollback(<<"flush">>)),
   wait_command_completion |-> Guarded(<<"tell">>, Ask, <<"flush">> \o Ask \o
     <<"verify">>, Except(Faults, <<"flush">> \o Ask \o <<"verify">>, {"error",
     "os"})),
   reset |-> Guarded(<<"tell", "tell">>, <<"tell", "flush">>, <<>>,
     Except({"timeout"}, <<>>, {}))]
AWG5014_Files ==
  Each({"get_error"}, AWG5014_CheckError) @@
  Each({"get_state", "get_setup_file_name", "get_file_names",
        "get_directories"},
       AskParsed) @@
  Each({"get_current_directory_name"}, Ask) @@
  Each({"change_directory", "cd_to_root"}, <<"tell">>) @@
  Each({"create_directory", "remove_directory"},
       Ask \o <<"verify", "tell">>)
AWG5014_Waveforms ==
  Each({"send_awg_file", "set_reference_oscillator_type"},
       <<"valid", "tell">>) @@
  Each({"load_awg_file", "remove_file"}, Ask \o <<"verify", "tell">>) @@
  Each({"clear_waveforms"}, <<"tell", "tell">>) @@
  Each({"delete_all_waveforms_from_list", "start", "stop",
        "set_clock_to_internal", "set_clock_to_external",
        "set_reference_oscillator_to_internal",
        "set_reference_oscillator_to_external"},
       <<"tell">>) @@
  Each({"get_clock_source", "get_reference_oscillator_source",
        "get_reference_oscillator_type"},
       Ask)
AWG5014_Channels ==
  Each({"get_reference_clock_frequency", "get_source_clock_frequency",
        "get_dc_output_state"},
       AskParsed) @@
  Each({"set_reference_clock_frequency", "set_amplitude", "set_offset",
        "set_dc_output_offset"},
       <<"valid", "tell">>) @@
  Each({"set_source_clock_frequency"}, <<"valid">> \o Ask \o <<"tell">>) @@
  Each({"set_source_clock_frequency_internal"},
       <<"valid">> \o Ask \o Ask \o <<"verify", "tell">>) @@
  Each({"get_amplitude", "get_offset", "get_dc_output_offset"},
       <<"valid">> \o AskParsed) @@
  Each({"set_dc_output_state"}, <<"tell">>)
AWG5014_RunMode ==
  Each({"get_raw_dac_waveform_output"}, <<"valid">> \o AskParsed) @@
  Each({"set_raw_dac_waveform_output", "set_run_mode",
        "set_trigger_impedance"},
       <<"valid", "tell">>) @@
  Each({"get_run_mode", "get_trigger_source", "get_signal_addition",
        "get_trigger_slope"},
       Ask) @@
  Each({"set_run_mode_to_triggered", "set_run_mode_to_continuous",
        "set_signal_addition", "set_trigger_source_to_internal",
        "set_trigger_source_to_external", "set_trigger_level"},
       <<"tell">>) @@
  Each({"get_trigger_impedance", "get_trigger_level"}, AskParsed)
AWG5014_Trigger ==
  Each({"set_trigger_slope", "set_trigger_polarity", "set_channel_state",
        "set_low_pass_filter_frequency"},
       <<"valid", "tell">>) @@
  Each({"get_trigger_polarity", "get_waveform_output_data_position"}, Ask) @@
  Each({"set_waveform_output_data_position"},
       <<"valid">> \o Ask \o <<"verify", "tell">>) @@
  Each({"force_trigger_event"}, <<"tell">>) @@
  Each({"get_channel_state", "get_low_pass_filter_frequency"},
       <<"valid">> \o AskParsed) @@
  Each({"get_sequence_length"}, AskParsed)
AWG5014_Sequence ==
  Each({"set_sequence_length", "set_sequence_element_goto_state",
        "set_sequence_element_loop_count_infinite_state",
        "set_sequence_element_trigger_wait_state"},
       <<"tell">>) @@
  Each({"get_sequencer_type"}, Ask) @@
  Each({"get_sequencer_position",
        "get_sequence_element_loop_count_infinite_state",
        "get_sequence_element_loop_count",
        "get_sequence_element_trigger_wait_state"},
       AskParsed) @@
  Each({"set_sequence_element_goto_target_index",
        "set_sequence_element_loop_count"},
       <<"valid", "tell">>) @@
  Each({"get_sequence_element_waveform"}, <<"valid">> \o Ask)
AWG5014_Jumps ==
  Each({"set_sequence_element_waveform", "set_sequence_element_jump_type",
        "set_sequence_jump_mode"},
       <<"valid", "tell">>) @@
  Each({"force_sequence_jump_to_index",
        "set_sequence_element_jump_target_index", "set_event_jump_mode",
        "set_event_jump_timing_mode"},
       <<"tell">>) @@
  Each({"get_sequence_element_jump_type", "get_sequence_jump_mode",
        "get_jump_target_definition", "get_event_jump_mode",
        "get_event_jump_timing_mode"},
       Ask) @@
  Each({"set_jump_target_definition"}, <<"tell", "scpi">>)
AWG5014_Events ==
  Each({"get_event_input_impedance", "get_event_level"}, AskParsed) @@
  Each({"set_event_input_impedance", "set_event_input_polarity",
        "set_marker_low", "set_marker_high", "set_marker_delay"},
       <<"valid", "tell">>) @@
  Each({"get_event_input_polarity"}, Ask) @@
  Each({"set_event_level"}, <<"tell">>) @@
  Each({"get_marker_low", "get_marker_high", "get_marker_delay"},
       <<"valid">> \o AskParsed)
AWG5014 ==
  Driver("tcp", TRUE, AWG5014_Open, AWG5014_Close,
         Programs(AWG5014_Waiting) \cup Methods(AWG5014_Files)
         \cup Methods(AWG5014_Waveforms) \cup Methods(AWG5014_Channels)
         \cup Methods(AWG5014_RunMode) \cup Methods(AWG5014_Trigger)
         \cup Methods(AWG5014_Sequence) \cup Methods(AWG5014_Jumps)
         \cup Methods(AWG5014_Events))

-----------------------------------------------------------------------------
(* Tektronix FCA3000: asks without a timeout; in talk-only mode it sends by itself. *)
FCA3000_Open == Plain(<<"topen", "markOpen">>)
FCA3000_Close == Plain(<<"markClosed", "tclose">>)
FCA3000_Measure ==
  Each({"reset"}, <<"tell">> \o Ask) @@
  Each({"get_idn", "measure_frequency", "read_value",
        "read_timestamped_value"},
       AskParsed) @@
  Each({"get_errors"}, Ask \o Ask) @@
  Each({"configure_frequency"},
       <<"tell", "tell", "tell", "tell", "tell">>)
FCA3000_TalkOnly ==
  Each({"set_talk_only"}, <<"isOpen", "tell", "collect">> \o Ask) @@
  Each({"set_talk_only_enable"}, <<"isOpen", "tell", "collect">> \o Ask \o
        <<"tell", "tell", "tell", "tell", "reply">> \o Binary) @@
  Each({"get_value_talk_only"}, <<"reply">> \o Binary \o <<"verify">>) @@
  Each({"get_trigger_level"}, AskParsed) @@
  Each({"set_display_enabled", "set_initiate_continuous"}, <<"tell">>)
FCA3000 ==
  Driver("tcp", FALSE, FCA3000_Open, FCA3000_Close,
         Methods(FCA3000_Measure) \cup Methods(FCA3000_TalkOnly))

-----------------------------------------------------------------------------
(* Rohde & Schwarz generators: a calibration answers minutes after it was asked. *)
RSBase_Open == Plain(<<"isClosed", "topen", "markOpen">>)
RSBase_Close == Plain(<<"markClosed", "tclose">>)
RSBase_CheckError == AskParsed
RSBase_CheckCalibrating == <<"isOpen", "poll">>
RSBase_Set == RSBase_CheckCalibrating \o <<"tell">> \o RSBase_CheckError
RSBase_Calibration ==
  [poll_calibration |-> Guarded(<<"isOpen">>, <<"poll">>, <<"verify">>,
     Except({"timeout"}, <<>>, {}))]
RSBase_Reference ==
  Each({"_get_external_reference_frequency"},
       RSBase_CheckCalibrating \o Ask) @@
  Each({"_set_external_reference_frequency"}, <<"valid">> \o RSBase_Set) @@
  Each({"get_idn"}, RSBase_CheckCalibrating \o AskParsed)
RSBase_Pulse ==
  Each({"reset"},
       RSBase_CheckCalibrating \o <<"tell", "tell">> \o RSBase_CheckError) @@
  Each({"get_phase", "get_frequency", "get_pulsemod_ext_source"},
       RSBase_CheckCalibrating \o AskParsed) @@
  Each({"set_phase", "set_frequency", "set_pulsemod_ext_source"},
       RSBase_Set) @@
  Each({"get_reference_source", "get_power_on_output_policy"},
       RSBase_CheckCalibrating \o Ask) @@
  Each({"set_reference_source", "set_power_on_output_policy"},
       <<"valid">> \o RSBase_Set) @@
  Each({"set_pulsemod_ext_source_guarded"}, RSBase_CheckCalibrating \o
        RSBase_CheckCalibrating \o AskParsed \o <<"verify", "tell">> \o
        RSBase_CheckError)
RSBase_Power ==
  Each({"get_pulsemod_polarity", "get_power", "get_output_state",
        "get_pulsemod_enabled"},
       RSBase_CheckCalibrating \o AskParsed) @@
  Each({"set_pulsemod_polarity", "set_power", "set_output_state"},
       RSBase_Set) @@
  Each({"set_pulsemod_polarity_guarded", "set_pulsemod_enabled"},
        RSBase_CheckCalibrating \o RSBase_CheckCalibrating \o AskParsed \o
        <<"verify", "tell">> \o RSBase_CheckError) @@
  Each({"set_power_guarded"}, RSBase_CheckCalibrating \o
        RSBase_CheckCalibrating \o AskParsed \o <<"verify">> \o
        RSBase_CheckCalibrating \o AskParsed \o <<"verify", "tell">> \o
        RSBase_CheckError) @@
  Each({"set_output_state_guarded"}, RSBase_CheckCalibrating \o
        RSBase_CheckCalibrating \o AskParsed \o RSBase_CheckCalibrating \o
        AskParsed \o <<"verify", "tell">> \o RSBase_CheckError)
RSBase_Iq ==
  Each({"get_iq_enabled", "get_iq_wideband", "get_iq_quadrature_offset",
        "get_iq_leakage_i", "get_iq_leakage_q", "get_iq_gain_imbalance",
        "get_iq_crest_factor"},
       RSBase_CheckCalibrating \o AskParsed) @@
  Each({"set_iq_enabled", "set_iq_wideband", "set_iq_crest_factor"},
       RSBase_Set) @@
  Each({"set_iq_quadrature_offset", "set_iq_leakage_i", "set_iq_leakage_q",
        "set_iq_gain_imbalance"},
       <<"valid">> \o RSBase_Set)
RSBase_Errors ==
  Each({"get_errors"}, RSBase_CheckError) @@
  Each({"get_error_queue_length"}, AskParsed)

-----------------------------------------------------------------------------
(* Rohde & Schwarz SGS100A: the calibration is one query, answered once.   *)
SGS100A_Control ==
  Each({"get_external_reference_frequency",
        "get_external_reference_bandwidth", "get_trigger_impedance"},
       RSBase_CheckCalibrating \o Ask) @@
  Each({"set_external_reference_frequency",
        "set_external_reference_bandwidth", "set_trigger_impedance"},
       <<"valid">> \o RSBase_Set) @@
  Each({"start_calibration"},
       RSBase_CheckCalibrating \o <<"verify", "await", "query">>) @@
  Each({"get_iq_correction_enabled"},
       RSBase_CheckCalibrating \o AskParsed) @@
  Each({"set_iq_correction_enabled"}, RSBase_Set)
SGS100A ==
  Driver("vxi11", TRUE, RSBase_Open, RSBase_Close,
         Programs(RSBase_Calibration) \cup Methods(RSBase_Reference)
         \cup Methods(RSBase_Pulse) \cup Methods(RSBase_Power)
         \cup Methods(RSBase_Iq) \cup Methods(RSBase_Errors)
         \cup Methods(SGS100A_Control))

-----------------------------------------------------------------------------
(* Rohde & Schwarz SMBV100A: a partial calibration is two or three queries. *)
SMBV100A_SetIq == <<"valid", "tell", "tell">>
SMBV100A_Control ==
  Each({"set_sig_for_iq_mod"},
       RSBase_CheckCalibrating \o <<"valid", "tell">> \o RSBase_CheckError) @@
  Each({"get_external_reference_frequency"},
       RSBase_CheckCalibrating \o Ask) @@
  Each({"set_external_reference_frequency", "set_freq_mode"},
       <<"valid">> \o RSBase_Set) @@
  Each({"set_iq"}, SMBV100A_SetIq) @@
  Each({"set_sweep_frequency_start", "set_sweep_frequency_stop",
        "set_sweep_frequency_step"},
       RSBase_Set)
SMBV100A_Calibration ==
  Each({"start_calibration_all"},
       RSBase_CheckCalibrating \o <<"verify", "await", "query">>) @@
  Each({"start_calibration_partial"},
       RSBase_CheckCalibrating \o <<"verify", "await", "query", "query">>) @@
  Each({"start_calibration_modulator"}, RSBase_CheckCalibrating \o
        <<"verify", "await", "query", "query">> \o SMBV100A_SetIq \o
        <<"query">>)
SMBV100A_Lists ==
  Each({"enable_list_mode", "set_list_processing_mode",
        "enable_list_step_mode", "set_trigger_source_processing_lists",
        "set_list_ext_trigger_source", "set_freq_sweep_mode",
        "set_freq_sweep_spacing_mode", "set_trig_source_freq_sweep"},
       <<"valid">> \o RSBase_Set) @@
  Each({"enable_ext_freq_sweep_mode"}, <<"valid">> \o RSBase_Set \o
        <<"valid">> \o RSBase_Set \o <<"valid">> \o RSBase_Set \o
        <<"valid">> \o RSBase_Set) @@
  Each({"reset_sweep", "reset_list_mode", "learn_list", "reset_list"},
       RSBase_Set)
SMBV100A_Upload ==
  Each({"load_fplist"}, RSBase_CheckCalibrating \o <<"tell", "tell",
        "tell">> \o RSBase_CheckError)
SMBV100A ==
  Driver("tcp", TRUE, RSBase_Open, RSBase_Close,
         Programs(RSBase_Calibration) \cup Methods(RSBase_Reference)
         \cup Methods(RSBase_Pulse) \cup Methods(RSBase_Power)
         \cup Methods(RSBase_Iq) \cup Methods(RSBase_Errors)
         \cup Methods(SMBV100A_Control) \cup Methods(SMBV100A_Calibration)
         \cup Methods(SMBV100A_Lists) \cup Methods(SMBV100A_Upload))

-----------------------------------------------------------------------------
(* AnaPico APSIN: discards what is in the buffer before every query.       *)
APSIN_Open ==
  Guarded(<<"isClosed", "topen">>, <<"tell", "scpi">>, <<"markOpen">>,
      Rollback(<<"tclose">>))
APSIN_Close == Plain(<<"markClosed", "tclose">>)
APSIN_Query == <<"flush">> \o AskParsed
APSIN_CheckError == APSIN_Query
APSIN_EnsurePowerUnit == <<"tell">> \o APSIN_CheckError
APSIN_Output ==
  Each({"reset"}, <<"flush", "tell", "scpi", "tell">> \o APSIN_CheckError) @@
  Each({"get_idn", "get_output_enabled", "get_frequency", "get_phase",
        "get_power_configured", "get_pulsemod_enabled", "get_pulsemod_ext_source",
        "get_pulsemod_polarity"},
       APSIN_Query) @@
  Each({"set_output_enabled", "set_frequency", "set_phase",
        "set_power_configured", "set_pulsemod_enabled", "set_pulsemod_ext_source",
        "set_pulsemod_polarity"},
       <<"tell">> \o APSIN_CheckError) @@
  Each({"get_power"}, APSIN_EnsurePowerUnit \o APSIN_Query) @@
  Each({"set_power"},
       APSIN_EnsurePowerUnit \o <<"tell">> \o APSIN_CheckError)
APSIN_Modulation ==
  Each({"get_am_enabled", "get_am_ext_source", "get_am_sensitivity",
        "get_fm_enabled", "get_fm_ext_source", "get_fm_sensitivity",
        "get_fm_coupling", "get_reference_source",
        "get_external_reference_frequency"},
       APSIN_Query) @@
  Each({"set_am_enabled", "set_am_ext_source", "set_am_sensitivity",
        "set_fm_enabled", "set_fm_ext_source", "set_fm_sensitivity"},
       <<"tell">> \o APSIN_CheckError) @@
  Each({"set_fm_coupling", "set_reference_source"},
       <<"valid", "tell">> \o APSIN_CheckError)
APSIN_Reference ==
  Each({"set_external_reference_frequency", "set_reference_output_enabled"},
       <<"tell">> \o APSIN_CheckError) @@
  Each({"get_reference_is_locked", "get_reference_output_enabled"},
       APSIN_Query)
APSIN ==
  Driver("tcp", TRUE, APSIN_Open, APSIN_Close,
         Methods(APSIN_Output) \cup Methods(APSIN_Modulation)
         \cup Methods(APSIN_Reference))

-----------------------------------------------------------------------------
(* Rigol DG4102: marks itself open before the transport is.                *)
DG4102_Open == Plain(<<"markOpen", "topen">>)
DG4102_Close == Plain(<<"tclose", "markClosed">>)
DG4102_CheckError == AskParsed
DG4102_Source ==
  Each({"get_idn", "get_frequency", "get_amplitude", "get_offset"},
       AskParsed) @@
  Each({"get_output_state"}, AskParsed \o Ask) @@
  Each({"get_waveform"}, Ask) @@
  Each({"set_output_state", "set_waveform", "set_frequency", "set_amplitude",
        "set_offset"},
       <<"tell">> \o DG4102_CheckError)
DG4102_Phase ==
  Each({"get_phase"}, AskParsed) @@
  Each({"set_phase"}, <<"tell">> \o DG4102_CheckError)
DG4102 ==
  Driver("usbtmc", TRUE, DG4102_Open, DG4102_Close,
         Methods(DG4102_Source) \cup Methods(DG4102_Phase))

-----------------------------------------------------------------------------
(* Siglent SDS1202X-E: open() switches the reply headers off after it is marked open. *)
SDS1202XE_Open == Plain(<<"topen", "markOpen", "tell">>)
SDS1202XE_Close == Plain(<<"markClosed", "tclose">>)
SDS1202XE_Waveform == <<"valid", "query", "read1", "verify", "tail", "verify">>
SDS1202XE_Settings ==
  Each({"get_id"}, Ask) @@
  Each({"set_comm_header"}, <<"tell">>) @@
  Each({"get_voltage_per_division", "get_voltage_offset",
        "get_trigger_coupling"},
       <<"valid">> \o AskParsed) @@
  Each({"set_voltage_per_division"}, <<"valid", "valid", "tell">>) @@
  Each({"set_voltage_offset", "set_time_per_division"},
       <<"valid", "tell">>) @@
  Each({"get_time_per_division", "get_sample_rate"}, AskParsed)
SDS1202XE_Trigger ==
  Each({"set_trigger_coupling", "set_trigger_slope"},
       <<"valid", "valid", "tell">>) @@
  Each({"get_trigger_level", "get_trigger_slope"},
       <<"valid">> \o AskParsed) @@
  Each({"set_trigger_level", "set_trigger_mode"}, <<"valid", "tell">>) @@
  Each({"get_trigger_mode"}, Ask) @@
  Each({"get_trigger_select", "get_trigger_state"}, AskParsed)
SDS1202XE_Acquire ==
  Each({"arm_trigger", "stop_acquisition"}, <<"tell">>) @@
  Each({"screen_dump"}, <<"query", "read1", "read1", "verify">>) @@
  Each({"get_waveform"}, SDS1202XE_Waveform)
SDS1202XE_Trace ==
  Each({"trace_dump"}, <<"flush", "tell", "valid">> \o AskParsed \o
        <<"valid">> \o AskParsed \o AskParsed \o AskParsed \o
        SDS1202XE_Waveform)
SDS1202XE ==
  Driver("tcp", TRUE, SDS1202XE_Open, SDS1202XE_Close,
         Methods(SDS1202XE_Settings) \cup Methods(SDS1202XE_Trigger)
         \cup Methods(SDS1202XE_Acquire) \cup Methods(SDS1202XE_Trace))

-----------------------------------------------------------------------------
(* Siglent SSA3000X: drops the welcome message before it is marked open.   *)
SSA3000X_Open == Plain(<<"topen", "reply", "flush", "markOpen">>)
SSA3000X_Close == Plain(<<"markClosed", "tclose">>)
SSA3000X_Spectrum ==
  Each({"get_id"}, Ask) @@
  Each({"get_freq_span", "get_freq_center", "get_freq_start", "get_freq_stop",
        "get_trace_format"},
       AskParsed) @@
  Each({"set_freq_span"}, <<"valid", "tell">>) @@
  Each({"set_freq_center"}, AskParsed \o <<"valid", "tell">>)
SSA3000X_Traces ==
  Each({"get_trace"},
       <<"valid">> \o AskParsed \o <<"verify">> \o AskParsed) @@
  Each({"get_spectrum"}, <<"valid">> \o AskParsed \o AskParsed \o
        <<"valid">> \o AskParsed \o <<"verify">> \o AskParsed \o
        <<"verify">>)
SSA3000X ==
  Driver("tcp", TRUE, SSA3000X_Open, SSA3000X_Close,
         Methods(SSA3000X_Spectrum) \cup Methods(SSA3000X_Traces))

-----------------------------------------------------------------------------
(* Thorlabs PM100D power meters.                                           *)
PM100D_Open == Plain(<<"isClosed", "topen", "markOpen">>)
PM100D_Close == Plain(<<"markClosed", "tclose">>)
PM100D_CheckError == AskParsed
PM100D_Meter ==
  Each({"reset"},
       <<"isOpen", "tell", "tell">> \o Ask \o PM100D_CheckError) @@
  Each({"get_idn", "get_sensor_info", "get_timestamped_power", "get_power",
        "get_range", "get_range_in_use", "get_autorange", "get_wavelength"},
       <<"isOpen">> \o AskParsed) @@
  Each({"set_range", "set_autorange", "set_wavelength"},
       <<"isOpen", "tell">> \o PM100D_CheckError) @@
  Each({"get_current"}, AskParsed)
PM100D ==
  Driver("usbtmc", TRUE, PM100D_Open, PM100D_Close, Methods(PM100D_Meter))

-----------------------------------------------------------------------------
(* Yokogawa DLM4038: acquisition is stopped while traces are read.         *)
DLM4038_Open == Plain(<<"isClosed", "topen", "markOpen">>)
DLM4038_Close == Plain(<<"markClosed", "tclose">>)
DLM4038_Put == <<"valid", "valid", "tell", "tell">>
DLM4038_Get == <<"valid">> \o Ask \o Ask
DLM4038_Trace == <<"valid">> \o AskParsed \o AskParsed \o AskParsed
DLM4038_Channels ==
  Each({"get_idn", "get_time_division"}, AskParsed) @@
  Each({"start", "stop", "set_time_division", "set_high_resolution"},
       <<"tell">>) @@
  Each({"turn_channel_on", "turn_channel_off", "set_voltage_offset",
        "set_voltage_division"},
       DLM4038_Put) @@
  Each({"get_voltage_offset", "get_voltage_division"},
       DLM4038_Get \o <<"verify">>)
DLM4038_Trigger ==
  Each({"get_max_waveform", "get_channel_position"},
       DLM4038_Get \o <<"verify">>) @@
  Each({"set_channel_position"}, DLM4038_Put) @@
  Each({"set_trigger_channel", "set_trigger_level", "set_normal",
        "set_number_data_points"},
       <<"tell">>) @@
  Each({"set_average"}, <<"tell", "tell">>) @@
  Each({"get_number_data_points", "get_data_format"}, AskParsed) @@
  Each({"set_data_format", "set_waveform_trace_channel"},
       <<"valid", "tell">>)
DLM4038_Traces ==
  Each({"get_waveform_trace_data_ascii"}, <<"valid">> \o AskParsed) @@
  Each({"get_waveform_trace_data_binary"}, DLM4038_Trace) @@
  Each({"get_waveform_trace_data_offset"}, DLM4038_Trace \o AskParsed) @@
  Each({"get_waveforms_trace_data"}, AskParsed \o <<"tell", "valid",
        "tell", "valid", "tell">> \o DLM4038_Trace \o <<"tell">>)
DLM4038_Storage ==
  Each({"save_file"}, <<"valid", "tell", "valid", "tell">> \o AskParsed \o
        <<"tell", "tell", "tell">>) @@
  Each({"copy_file"}, <<"lib", "lib">>) @@
  Each({"find_file_name"}, <<"lib", "valid">>) @@
  Each({"delete_file"},
       <<"valid", "tell", "lib", "valid", "tell", "tell">>)
DLM4038 ==
  Driver("vxi11", TRUE, DLM4038_Open, DLM4038_Close,
         Methods(DLM4038_Channels) \cup Methods(DLM4038_Trigger)
         \cup Methods(DLM4038_Traces) \cup Methods(DLM4038_Storage))

-----------------------------------------------------------------------------
(* Santec TSL-570: open() reads the ranges after it is marked open.        *)
TSL570_Open ==
  Plain(<<"isClosed", "topen", "markOpen">> \o AskParsed \o AskParsed \o
      AskParsed \o AskParsed \o AskParsed)
TSL570_Close == Plain(<<"isOpen", "markClosed", "tclose">>)
TSL570_CheckError == Ask \o Ask
TSL570_Set == <<"tell">> \o TSL570_CheckError \o <<"verify">>
TSL570_Wavelength ==
  Each({"get_idn", "operation_complete", "get_wavelength",
        "get_minimum_wavelength", "get_maximum_wavelength", "get_frequency"},
       AskParsed) @@
  Each({"reset", "clear"}, TSL570_Set) @@
  Each({"get_errors"}, TSL570_CheckError) @@
  Each({"set_wavelength", "set_frequency"}, <<"valid">> \o TSL570_Set)
TSL570_Power ==
  Each({"get_minimum_frequency", "get_maximum_frequency",
        "get_wavelength_unit", "get_wavelength_fine",
        "get_coherence_control_status", "get_optical_output_status"},
       AskParsed) @@
  Each({"set_wavelength_unit_to_nm", "set_wavelength_unit_to_thz",
        "disable_finetuning_operation"},
       TSL570_Set) @@
  Each({"set_wavelength_fine", "set_coherence_control_status",
        "set_optical_output_status"},
       <<"valid">> \o TSL570_Set) @@
  Each({"set_power_level"}, AskParsed \o <<"valid">> \o TSL570_Set)
TSL570_Sweep ==
  Each({"get_power_level", "get_actual_power", "get_power_level_unit",
        "get_sweep_start_wavelength", "get_sweep_stop_wavelength",
        "get_sweep_start_frequency"},
       AskParsed) @@
  Each({"set_power_level_unit_to_mw", "set_power_level_unit_to_dbm"},
       TSL570_Set) @@
  Each({"set_sweep_start_wavelength", "set_sweep_stop_wavelength",
        "set_sweep_start_frequency"},
       <<"valid">> \o TSL570_Set)
TSL570_SweepMode ==
  Each({"set_sweep_stop_frequency", "set_sweep_mode", "set_sweep_speed",
        "set_sweep_dwell", "set_sweep_delay", "set_sweep_cycles"},
       <<"valid">> \o TSL570_Set) @@
  Each({"get_sweep_stop_frequency", "get_sweep_mode", "get_sweep_speed",
        "get_sweep_dwell", "get_sweep_delay", "get_sweep_cycles"},
       AskParsed)
TSL570_Trigger ==
  Each({"set_sweep_state", "set_trigger_output_timing_mode",
        "set_trigger_output_period_mode"},
       <<"valid">> \o TSL570_Set) @@
  Each({"start_repeating_sweep", "issue_soft_trigger", "shutdown", "reboot"},
       TSL570_Set) @@
  Each({"get_sweep_state", "get_trigger_output_timing_mode",
        "get_trigger_output_period_mode", "get_trigger_output_step",
        "readout_points"},
       AskParsed) @@
  Each({"set_trigger_output_step"},
       AskParsed \o AskParsed \o <<"valid">> \o TSL570_Set) @@
  Each({"readout_data"}, <<"query">> \o Binary)
TSL570 ==
  Driver("tcp", TRUE, TSL570_Open, TSL570_Close,
         Methods(TSL570_Wavelength) \cup Methods(TSL570_Power)
         \cup Methods(TSL570_Sweep) \cup Methods(TSL570_SweepMode)
         \cup Methods(TSL570_Trigger))

-----------------------------------------------------------------------------
(* Tenma 72: reads until nothing more comes within the timeout.            *)
Tenma72_Open == Plain(<<"isClosed", "topen", "markOpen">>)
Tenma72_Close == Plain(<<"isOpen", "markClosed", "tclose">>)
Tenma72_Base ==
  Each({"get_idn", "get_current", "get_voltage"},
       <<"query", "collect", "verify">>) @@
  Each({"set_current", "set_voltage"}, <<"valid", "tell">>)

-----------------------------------------------------------------------------
Tenma72_2550_Status ==
  Each({"get_status"}, <<"query", "read2">>) @@
  Each({"enable_output"}, <<"tell", "query", "read2", "verify">>)
Tenma72_2550 ==
  Driver("serial", TRUE, Tenma72_Open, Tenma72_Close,
         Methods(Tenma72_Base) \cup Methods(Tenma72_2550_Status))

-----------------------------------------------------------------------------
Tenma72_13350_Status ==
  Each({"get_status"}, <<"query", "read2">>) @@
  Each({"enable_output"}, <<"tell", "query", "read2", "verify">>) @@
  Each({"get_dhcp", "get_ip_address", "get_subnet_mask",
        "get_gateway_address", "get_ip_port"},
       <<"query", "collect">>) @@
  Each({"set_dhcp", "set_ip_address", "set_subnet_mask",
        "set_gateway_address", "set_ip_port"},
       <<"tell">>)
Tenma72_13350 ==
  Driver("udp", TRUE, Tenma72_Open, Tenma72_Close,
         Methods(Tenma72_Base) \cup Methods(Tenma72_13350_Status))

-----------------------------------------------------------------------------
(* SRS DC205: sets the reply terminator in open(), rolled back on any exception. *)
DC205_Open ==
  Guarded(<<"topen">>, <<"tell">>, <<"markOpen">>, Rollback(<<"tclose">>))
DC205_Close == Plain(<<"markClosed", "tclose">>)
DC205_CheckError == AskParsed
DC205_SetCommand == <<"isOpen", "tell">> \o DC205_CheckError
DC205_Query == <<"isOpen">> \o AskParsed
DC205_Source ==
  Each({"reset"},
       <<"isOpen">> \o Ask \o <<"tell">> \o Ask \o DC205_CheckError) @@
  Each({"get_idn", "get_range", "get_output_enabled", "get_voltage",
        "get_output_floating", "get_sensing_enabled", "get_interlock_status",
        "get_overloaded"},
       DC205_Query) @@
  Each({"set_range"}, <<"valid">> \o DC205_SetCommand) @@
  Each({"set_output_enabled", "set_voltage", "set_output_floating",
        "set_sensing_enabled"},
       DC205_SetCommand)
DC205 == Driver("serial", TRUE, DC205_Open, DC205_Close, Methods(DC205_Source))

-----------------------------------------------------------------------------
(* SRS SIM900: a mainframe that passes queries on, asked without a timeout. *)
SIM900_Open == Plain(<<"topen", "markOpen">>)
SIM900_Close == Plain(<<"markClosed", "tclose">>)
SIM900_Mainframe ==
  Each({"input_bytes_waiting"}, <<"isOpen", "valid">> \o AskParsed) @@
  Each({"get_raw_bytes"}, <<"isOpen", "valid", "query", "read2">>) @@
  Each({"send_terminated_message"}, <<"isOpen", "valid", "tell">>) @@
  Each({"ask_module"}, <<"isOpen", "valid", "tell", "isOpen", "valid">> \o
        AskParsed \o <<"isOpen", "valid", "query", "read2", "verify">>)
SIM900 ==
  Driver("serial", FALSE, SIM900_Open, SIM900_Close, Methods(SIM900_Mainframe))

-----------------------------------------------------------------------------
(* TTi TGF3162: only an OSError of the first write is rolled back.         *)
TGF3162_Open ==
  Guarded(<<"topen">>, <<"tell">>, <<"markOpen">>, Except({"os"}, <<"tclose">>,
      Faults))
TGF3162_Close == Plain(<<"markClosed", "tclose">>)
TGF3162_CheckError == AskParsed \o <<"verify">>
TGF3162_Generator ==
  Each({"get_idn"}, AskParsed) @@
  Each({"reset"}, <<"tell", "tell">> \o TGF3162_CheckError) @@
  Each({"set_output_enabled", "set_output_inverted",
        "set_output_load_impedance", "set_waveform", "set_frequency",
        "set_square_duty_cycle"},
       <<"valid", "tell">> \o TGF3162_CheckError)
TGF3162_Shape ==
  Each({"set_ramp_symmetry", "set_amplitude", "set_phase",
        "set_counter_input"},
       <<"valid", "tell">> \o TGF3162_CheckError) @@
  Each({"get_external_reference_enabled", "read_frequency"}, AskParsed) @@
  Each({"set_external_reference_enabled", "set_counter_enabled"},
       <<"tell">> \o TGF3162_CheckError) @@
  Each({"set_local"}, <<"tell">>)
TGF3162 ==
  Driver("tcp", TRUE, TGF3162_Open, TGF3162_Close,
         Methods(TGF3162_Generator) \cup Methods(TGF3162_Shape))

-----------------------------------------------------------------------------
(* The drivers of this module.                                             *)
DriversScpiTable ==
  [AFG31000 |-> AFG31000, AWG5014 |-> AWG5014, FCA3000 |-> FCA3000,
   SGS100A |-> SGS100A, SMBV100A |-> SMBV100A, APSIN |-> APSIN,
   DG4102 |-> DG4102, SDS1202XE |-> SDS1202XE, SSA3000X |-> SSA3000X,
   PM100D |-> PM100D, DLM4038 |-> DLM4038, TSL570 |-> TSL570,
   Tenma72_2550 |-> Tenma72_2550, Tenma72_13350 |-> Tenma72_13350,
   DC205 |-> DC205, SIM900 |-> SIM900, TGF3162 |-> TGF3162]
==============================================================================
