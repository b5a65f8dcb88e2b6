--------------------------- MODULE DriversMotion -----------------------------
(***************************************************************************)
(* The drivers of stages, positioners, cryostats and other machines that   *)
(* move or settle, and of the controllers that switch light.               *)
(***************************************************************************)
EXTENDS Programs, TLC
(* AptProtocol.ask(): other messages are skipped; an unknown one or half a one    *)
(* is dropped and reported.                                                       *)
AptAsk(before, after) ==
  Guarded(before \o <<"drain", "query">> \o Maybe(<<"read1", "read1">>)
          \o <<"read1">> \o Maybe(<<"flush", "fail">>),
          <<"read1">>, <<"verify">> \o after,
          Except({"timeout"}, <<"drain">>, Faults))

-----------------------------------------------------------------------------
(* Newport single-axis controllers: parameters are set in the CONFIGURATION state. *)
SingleAxis_Open == Plain(<<"isClosed", "topen", "markOpen">>)
SingleAxis_Close == Plain(<<"isOpen", "tclose", "markClosed">>)
SingleAxis_CheckError == Ask \o Maybe(Ask \o <<"fail">>)
SingleAxis_Ready == Ask \o <<"verify">>
SingleAxis_Enter ==
  Ask \o Maybe(Maybe(<<"tell">>) \o <<"enter">> \o SingleAxis_CheckError)
SingleAxis_Query == <<"valid">> \o Ask \o SingleAxis_CheckError
SingleAxis_Read == SingleAxis_Enter \o Ask \o SingleAxis_CheckError
SingleAxis_Write == SingleAxis_Enter \o <<"tell">> \o SingleAxis_CheckError
SingleAxis_Motion ==
  Each({"reset", "home_search"},
       <<"valid", "tell">> \o SingleAxis_CheckError) @@
  Each({"get_idn"}, SingleAxis_Query \o <<"verify">>) @@
  Each({"get_positioner_error_and_state"}, <<"valid">> \o Ask) @@
  Each({"get_home_search_timeout"}, SingleAxis_Query)
SingleAxis_Stage ==
  [get_stage_identifier |-> Guarded(<<"valid">>, SingleAxis_Read,
     <<"leave">>, Rollback(<<"leave">>)),
   set_home_search_timeout |-> Guarded(<<"valid">>, SingleAxis_Write,
     <<"leave">>, Rollback(<<"leave">>))]
SingleAxis_State ==
  Each({"move_absolute", "move_relative"}, <<"valid", "valid">> \o
        SingleAxis_Ready \o <<"valid", "tell">> \o SingleAxis_CheckError) @@
  Each({"get_setpoint", "get_position", "get_motion_time",
        "is_in_configuration_state"},
       SingleAxis_Query)
SingleAxis_Disable ==
  Each({"is_in_disable_state"}, SingleAxis_Query) @@
  Each({"set_configuration_state"}, <<"valid", "tell">>) @@
  Each({"set_disable_state"},
       <<"valid", "tell">> \o SingleAxis_CheckError)
SingleAxis_Acceleration ==
  [get_acceleration |-> Guarded(<<"valid">> \o SingleAxis_Ready, Ask \o
     SingleAxis_CheckError, <<"verify">>, Except({"os", "timeout"}, <<>>,
     Faults)),
   get_acceleration_configured |-> Guarded(<<"valid">> \o Ask \o Maybe(Ask \o
     SingleAxis_CheckError), SingleAxis_Read, <<"leave", "verify">>,
     Rollback(<<"leave">>)),
   set_acceleration |-> Guarded(<<"valid", "valid">> \o SingleAxis_Ready,
     <<"tell">> \o SingleAxis_CheckError, <<>>, Except({"os"}, <<>>, Faults)),
   set_acceleration_persistent |-> Guarded(<<"valid", "valid">>,
     SingleAxis_Write, <<"leave">>, Rollback(<<"leave">>)),
   get_velocity |-> Guarded(<<"valid">> \o SingleAxis_Ready, Ask \o
     SingleAxis_CheckError, <<"verify">>, Except({"os", "timeout"}, <<>>,
     Faults)),
   get_velocity_configured |-> Guarded(<<"valid">> \o Ask \o Maybe(Ask \o
     SingleAxis_CheckError), SingleAxis_Read, <<"leave", "verify">>,
     Rollback(<<"leave">>))]
SingleAxis_Velocity ==
  [set_velocity_persistent |-> Guarded(<<"valid", "valid", "valid">>,
     SingleAxis_Write, <<"leave">>, Rollback(<<"leave">>)),
   get_jerk_time_configured |-> Guarded(<<"valid">> \o Ask \o Maybe(Ask \o
     SingleAxis_CheckError), SingleAxis_Read, <<"leave", "verify">>,
     Rollback(<<"leave">>))]
SingleAxis_Jerk ==
  Each({"set_velocity"}, <<"valid", "valid", "valid">> \o
        SingleAxis_Ready \o <<"tell">> \o SingleAxis_CheckError) @@
  Each({"get_jerk_time"}, <<"valid">> \o SingleAxis_Ready \o Ask \o
        SingleAxis_CheckError \o <<"verify">>)
SingleAxis_JerkTime ==
  [set_jerk_time_persistent |-> Guarded(<<"valid", "valid">>,
     SingleAxis_Write, <<"leave">>, Rollback(<<"leave">>))]
SingleAxis_Error ==
  Each({"set_jerk_time"}, <<"valid", "valid">> \o SingleAxis_Ready \o
        <<"tell">> \o SingleAxis_CheckError) @@
  Each({"get_error"}, <<"valid">> \o Ask \o Maybe(Ask)) @@
  Each({"stop_motion"}, <<"valid", "tell">> \o SingleAxis_CheckError)
SingleAxis_Compensation ==
  [get_backlash_compensation |-> Guarded(<<"valid">>, SingleAxis_Read,
     <<"leave">>, Rollback(<<"leave">>)),
   get_hysteresis_compensation |-> Guarded(<<"valid">>, SingleAxis_Read,
     <<"leave">>, Rollback(<<"leave">>)),
   set_backlash_compensation |-> Guarded(<<"valid">>, SingleAxis_Read \o
     Maybe(<<"leave", "fail">>) \o <<"tell">> \o SingleAxis_CheckError,
     <<"leave">>, Rollback(<<"leave">>)),
   set_hysteresis_compensation |-> Guarded(<<"valid">>, SingleAxis_Read \o
     Maybe(<<"leave", "fail">>) \o <<"tell">> \o SingleAxis_CheckError,
     <<"leave">>, Rollback(<<"leave">>))]
SingleAxis_Current ==
  [get_home_search_type |-> Guarded(<<"valid">>, SingleAxis_Read,
     <<"leave">>, Rollback(<<"leave">>)),
   get_peak_current_limit |-> Guarded(<<"valid">>, SingleAxis_Read,
     <<"leave">>, Rollback(<<"leave">>)),
   get_rms_current_limit |-> Guarded(<<"valid">>, SingleAxis_Read,
     <<"leave">>, Rollback(<<"leave">>)),
   set_home_search_type |-> Guarded(<<"valid", "valid">>, SingleAxis_Write,
     <<"leave">>, Rollback(<<"leave">>)),
   set_peak_current_limit |-> Guarded(<<"valid", "valid">>, SingleAxis_Write,
     <<"leave">>, Rollback(<<"leave">>)),
   set_rms_current_limit |-> Guarded(<<"valid">>, SingleAxis_Read \o
     Maybe(<<"leave", "fail">>) \o <<"tell">> \o SingleAxis_CheckError,
     <<"leave">>, Rollback(<<"leave">>))]
SingleAxis_Averaging ==
  [get_rms_current_averaging_time |-> Guarded(<<"valid">>, SingleAxis_Read,
     <<"leave">>, Rollback(<<"leave">>)),
   set_rms_current_averaging_time |-> Guarded(<<"valid", "valid">>,
     SingleAxis_Write, <<"leave">>, Rollback(<<"leave">>))]
SingleAxis_Inputs ==
  Each({"get_analog_input_value", "get_ttl_input_value",
        "get_ttl_output_value"},
       SingleAxis_Query) @@
  Each({"set_ttl_output_value"},
       <<"valid", "valid", "tell">> \o SingleAxis_CheckError)
SingleAxis_Address ==
  [get_controller_rs485_address |-> Guarded(<<"valid">>, SingleAxis_Read,
     <<"leave">>, Rollback(<<"leave">>)),
   set_controller_rs485_address |-> Guarded(<<"valid", "valid">>,
     SingleAxis_Write, <<"leave">>, Rollback(<<"leave">>))]
SingleAxis_NegativeLimit ==
  Each({"get_negative_software_limit"}, <<"valid">> \o SingleAxis_Ready \o
        Ask \o SingleAxis_CheckError \o <<"verify">>) @@
  Each({"get_negative_software_limit_configured"}, <<"valid">> \o Ask \o
        SingleAxis_Enter \o Ask \o SingleAxis_CheckError \o <<"leave",
        "verify">>) @@
  Each({"set_negative_software_limit"}, <<"valid", "valid">> \o
        SingleAxis_Ready \o <<"tell">> \o SingleAxis_CheckError)
SingleAxis_Limits ==
  [set_negative_software_limit_persistent |-> Guarded(<<"valid", "valid">>,
     SingleAxis_Write, <<"leave">>, Rollback(<<"leave">>)),
   get_positive_software_limit_configured |-> Guarded(<<"valid">> \o Ask \o
     Maybe(Ask \o SingleAxis_CheckError), SingleAxis_Read, <<"leave",
     "verify">>, Rollback(<<"leave">>))]
SingleAxis_PositiveLimit ==
  Each({"get_positive_software_limit"}, <<"valid">> \o SingleAxis_Ready \o
        Ask \o SingleAxis_CheckError \o <<"verify">>) @@
  Each({"set_positive_software_limit"}, <<"valid", "valid">> \o
        SingleAxis_Ready \o <<"tell">> \o SingleAxis_CheckError)
SingleAxis_LastLimit ==
  [set_positive_software_limit_persistent |-> Guarded(<<"valid", "valid">>,
     SingleAxis_Write, <<"leave">>, Rollback(<<"leave">>))]
SingleAxis ==
  Driver("serial", TRUE, SingleAxis_Open, SingleAxis_Close,
         Methods(SingleAxis_Motion) \cup Programs(SingleAxis_Stage)
         \cup Methods(SingleAxis_State) \cup Methods(SingleAxis_Disable)
         \cup Programs(SingleAxis_Acceleration)
         \cup Programs(SingleAxis_Velocity) \cup Methods(SingleAxis_Jerk)
         \cup Programs(SingleAxis_JerkTime) \cup Methods(SingleAxis_Error)
         \cup Programs(SingleAxis_Compensation)
         \cup Programs(SingleAxis_Current) \cup Programs(SingleAxis_Averaging)
         \cup Methods(SingleAxis_Inputs) \cup Programs(SingleAxis_Address)
         \cup Methods(SingleAxis_NegativeLimit)
         \cup Programs(SingleAxis_Limits)
         \cup Methods(SingleAxis_PositiveLimit)
         \cup Programs(SingleAxis_LastLimit))

-----------------------------------------------------------------------------
(* Newport SMC100CC: leaves the CONFIGURATION state at the end of a method only. *)
SMC100CC_Enter == Ask \o Maybe(<<"tell">> \o SingleAxis_CheckError)
SMC100CC_Get == Ask \o SingleAxis_CheckError
SMC100CC_Set == <<"tell">> \o SingleAxis_CheckError

\* Mutant: the encoder is set and the controller stays in CONFIGURATION state.
SMC100CC_Encoder_Stays ==
  Each({"set_encoder_increment_value"},
       <<"valid">> \o SingleAxis_Enter \o SMC100CC_Set)

SMC100CC_Encoder ==
  Each({"get_encoder_increment_value", "get_driver_voltage"},
       <<"valid">> \o SingleAxis_Enter \o SMC100CC_Get \o <<"leave">>) @@
  Each({"set_encoder_increment_value"},
       <<"valid">> \o SingleAxis_Enter \o SMC100CC_Set \o <<"leave">>) @@
  Each({"set_driver_voltage"}, <<"valid", "valid">> \o SingleAxis_Enter \o
        SMC100CC_Set \o <<"leave">>)
SMC100CC_Filter ==
  Each({"get_low_pass_filter_cutoff_frequency", "get_following_error_limit"},
       <<"valid">> \o SMC100CC_Enter \o SMC100CC_Get \o <<"tell">>) @@
  Each({"get_low_pass_filter_cutoff_frequency_configured"}, <<"valid">> \o
        SMC100CC_Enter \o SingleAxis_Enter \o SMC100CC_Get \o <<"leave">>) @@
  Each({"set_low_pass_filter_cutoff_frequency", "set_following_error_limit"},
       <<"valid", "valid">> \o SMC100CC_Enter \o SMC100CC_Set \o <<"tell">>) @@
  Each({"set_low_pass_filter_cutoff_frequency_persistent"}, <<"valid",
        "valid">> \o SingleAxis_Enter \o SMC100CC_Set \o <<"leave">>)
SMC100CC_Friction ==
  Each({"get_friction_compensation", "get_derivative_gain"},
       <<"valid">> \o SMC100CC_Enter \o SMC100CC_Get \o <<"tell">>) @@
  Each({"set_friction_compensation"},
       <<"valid">> \o SMC100CC_Enter \o SMC100CC_Set \o <<"tell">>) @@
  Each({"set_friction_compensation_persistent"}, <<"valid">> \o
        SingleAxis_Enter \o SMC100CC_Get \o Maybe(<<"leave", "fail">>) \o
        SMC100CC_Set \o <<"leave">>) @@
  Each({"set_derivative_gain"},
       <<"valid", "valid">> \o SMC100CC_Enter \o SMC100CC_Set \o <<"tell">>)
SMC100CC_Gains ==
  Each({"get_integral_gain", "get_proportional_gain"},
       <<"valid">> \o SMC100CC_Enter \o SMC100CC_Get \o <<"tell">>) @@
  Each({"get_integral_gain_configured",
        "get_proportional_gain_configured"}, <<"valid">> \o
        SMC100CC_Enter \o SingleAxis_Enter \o SMC100CC_Get \o <<"leave">>) @@
  Each({"set_integral_gain", "set_proportional_gain"},
       <<"valid", "valid">> \o SMC100CC_Enter \o SMC100CC_Set \o <<"tell">>) @@
  Each({"set_integral_gain_persistent",
        "set_proportional_gain_persistent"}, <<"valid", "valid">> \o
        SingleAxis_Enter \o SMC100CC_Set \o <<"leave">>)
SMC100CC_Loop ==
  Each({"get_velocity_feed_forward", "get_control_loop_state"},
       <<"valid">> \o SMC100CC_Enter \o SMC100CC_Get \o <<"tell">>) @@
  Each({"get_velocity_feed_forward_configured",
        "get_control_loop_state_configured"}, <<"valid">> \o
        SMC100CC_Enter \o SingleAxis_Enter \o SMC100CC_Get \o <<"leave">>) @@
  Each({"set_velocity_feed_forward", "set_control_loop_state"},
       <<"valid", "valid">> \o SMC100CC_Enter \o SMC100CC_Set \o <<"tell">>) @@
  Each({"set_velocity_feed_forward_persistent",
        "set_control_loop_state_configured"}, <<"valid", "valid">> \o
        SMC100CC_Enter \o SingleAxis_Enter \o SMC100CC_Set \o <<"leave">>)
SMC100CC ==
  Driver("serial", TRUE, SingleAxis_Open, SingleAxis_Close,
         Methods(SingleAxis_Motion) \cup Programs(SingleAxis_Stage)
         \cup Methods(SingleAxis_State) \cup Methods(SingleAxis_Disable)
         \cup Programs(SingleAxis_Acceleration)
         \cup Methods(SingleAxis_NegativeLimit) \cup Methods(SMC100CC_Encoder)
         \cup Methods(SMC100CC_Filter) \cup Methods(SMC100CC_Friction)
         \cup Methods(SMC100CC_Gains) \cup Methods(SMC100CC_Loop))

-----------------------------------------------------------------------------
(* Newport SMC100PP.                                                       *)
SMC100PP_Steps ==
  Each({"get_micro_step_per_full_step_factor",
        "get_motion_distance_per_full_step"},
       <<"valid">> \o SMC100CC_Get) @@
  Each({"get_micro_step_per_full_step_factor_configured",
        "get_motion_distance_per_full_step_configured"},
       <<"valid">> \o SingleAxis_Enter \o SMC100CC_Get \o <<"leave">>) @@
  Each({"set_micro_step_per_full_step_factor",
        "set_motion_distance_per_full_step"}, <<"valid", "valid">> \o
        SingleAxis_Enter \o SMC100CC_Set \o <<"leave">>)
SMC100PP_Velocity ==
  Each({"get_base_velocity"}, <<"valid">> \o SingleAxis_Ready \o
        SMC100CC_Get \o <<"tell", "verify">>) @@
  Each({"get_base_velocity_configured"}, <<"valid">> \o Ask \o
        SingleAxis_Enter \o SMC100CC_Get \o <<"leave", "verify">>) @@
  Each({"set_base_velocity"}, <<"valid">> \o SingleAxis_Ready \o
        SMC100CC_Get \o <<"verify">> \o SMC100CC_Set) @@
  Each({"set_base_velocity_persistent"}, <<"valid">> \o
        SingleAxis_Enter \o SMC100CC_Get \o Maybe(<<"leave", "fail">>) \o
        SMC100CC_Set \o <<"leave">>)
SMC100PP ==
  Driver("serial", TRUE, SingleAxis_Open, SingleAxis_Close,
         Methods(SingleAxis_Motion) \cup Programs(SingleAxis_Stage)
         \cup Methods(SingleAxis_State) \cup Methods(SingleAxis_Disable)
         \cup Programs(SingleAxis_Acceleration)
         \cup Methods(SingleAxis_NegativeLimit) \cup Methods(SMC100PP_Steps)
         \cup Methods(SMC100PP_Velocity))

-----------------------------------------------------------------------------
(* Newport AG-UC8: marked open before the controller is in remote mode.    *)
AG_UC8_Open ==
  Plain(<<"topen", "markOpen", "isOpen", "tell", "isOpen", "query", "line",
      "verify", "verify">>)
AG_UC8_Close == Plain(<<"tclose", "markClosed">>)
AG_UC8_Attribute == <<"isOpen", "query", "line", "verify">>
AG_UC8_CheckError == AG_UC8_Attribute \o <<"verify">>
AG_UC8_Select ==
  <<"valid">> \o Maybe(<<"isOpen", "tell">> \o AG_UC8_CheckError)
AG_UC8_SetAxis == <<"valid", "isOpen", "tell">> \o AG_UC8_CheckError
AG_UC8_Axis ==
  Each({"reset"},
       <<"isOpen", "tell", "isOpen", "tell">> \o AG_UC8_CheckError) @@
  Each({"get_idn"}, AG_UC8_Attribute) @@
  Each({"get_limit_status"},
       AG_UC8_Select \o AG_UC8_Attribute \o <<"verify">>) @@
  Each({"get_step_delay"}, <<"valid">> \o AG_UC8_Attribute) @@
  Each({"set_step_delay"}, AG_UC8_SetAxis) @@
  Each({"get_step_amplitude"}, <<"valid", "valid">> \o AG_UC8_Attribute) @@
  Each({"set_step_amplitude"}, <<"valid">> \o AG_UC8_SetAxis)
AG_UC8_Steps ==
  Each({"get_step_count", "get_axis_status"},
       <<"valid">> \o AG_UC8_Attribute) @@
  Each({"clear_step_count"},
       <<"valid", "isOpen", "tell">> \o AG_UC8_CheckError) @@
  Each({"jog", "move_limit"}, AG_UC8_Select \o AG_UC8_SetAxis) @@
  Each({"measure_position", "move_abs"},
       AG_UC8_Select \o <<"valid">> \o AG_UC8_Attribute) @@
  Each({"move_rel"}, <<"valid">> \o AG_UC8_Select \o AG_UC8_SetAxis) @@
  Each({"stop"}, <<"valid", "isOpen", "tell">>)
AG_UC8 ==
  Driver("serial", TRUE, AG_UC8_Open, AG_UC8_Close,
         Methods(AG_UC8_Axis) \cup Methods(AG_UC8_Steps))

-----------------------------------------------------------------------------
(* PI E-873: discards late replies before every query; replies of several lines. *)
E873_Open ==
  Plain(<<"topen", "markOpen", "isOpen", "flush", "query", "line", "verify",
      "isOpen", "flush", "query", "line", "verify", "verify">>)
E873_Close == Plain(<<"markClosed", "tclose">>)
E873_Query ==
  <<"isOpen", "flush", "query", "line">> \o Maybe(<<"reply", "line">>) \o
      <<"verify">>
E873_CheckError == E873_Query \o <<"verify">>
E873_Write == <<"isOpen", "tell">>
E873_Status ==
  Each({"reset", "stop_all", "stop_smooth", "set_acceleration"},
       E873_Write \o E873_CheckError) @@
  Each({"get_idn", "get_error", "get_system_status", "get_physical_unit",
        "get_max_position_error", "get_max_velocity", "get_max_acceleration",
        "get_max_deceleration", "get_reference_signal_mode",
        "get_reference_velocity"},
       E873_Query) @@
  Each({"get_stage_info"},
       E873_Query \o E873_Query \o E873_Query \o E873_Query) @@
  Each({"get_position_range"}, E873_Query \o E873_Query)
E873_Motion ==
  Each({"get_acceleration", "get_deceleration", "get_velocity",
        "get_servo_mode", "get_reference_definition_mode", "get_reference_result"},
       E873_Query) @@
  Each({"set_deceleration", "set_servo_mode", "set_reference_definition_mode",
        "reference_move"},
       E873_Write \o E873_CheckError) @@
  Each({"set_velocity"}, <<"valid">> \o E873_Write \o E873_CheckError)
E873_Trigger ==
  Each({"move_absolute", "move_relative"}, E873_Write \o E873_CheckError) @@
  Each({"get_target_position", "get_position"}, E873_Query) @@
  Each({"wait_motion_complete"}, E873_Query \o Maybe(E873_Query)) @@
  Each({"set_trigger_inmotion"},
       <<"valid">> \o E873_Write \o E873_Write \o E873_CheckError) @@
  Each({"set_trigger_position_offset"}, <<"valid">> \o E873_Write \o
        E873_Write \o E873_Write \o E873_Write \o E873_Write \o
        E873_CheckError)
E873_Digital ==
  Each({"set_trigger_output_state", "set_digital_output"},
       <<"valid">> \o E873_Write \o E873_CheckError) @@
  Each({"get_trigger_output_state", "get_digital_input"},
       <<"valid">> \o E873_Query) @@
  Each({"define_macro"},
       E873_Write \o Maybe(E873_Write) \o E873_Write \o E873_CheckError) @@
  Each({"delete_macro"}, E873_Write \o E873_CheckError) @@
  Each({"get_defined_macros"}, E873_Query) @@
  Each({"start_macro"},
       <<"valid", "valid">> \o E873_Write \o E873_CheckError)
E873_Macros ==
  Each({"get_running_macros", "get_variables"}, E873_Query) @@
  Each({"set_variable"}, <<"valid">> \o E873_Write \o E873_CheckError) @@
  Each({"get_variable"}, <<"valid">> \o E873_Query)
E873 ==
  Driver("serial", TRUE, E873_Open, E873_Close,
         Methods(E873_Status) \cup Methods(E873_Motion)
         \cup Methods(E873_Trigger) \cup Methods(E873_Digital)
         \cup Methods(E873_Macros))

-----------------------------------------------------------------------------
(* Montana Cryostation: close() switches the platform heater off first, with retries. *)
Cryostation_Open == Plain(<<"topen", "markOpen">>)
Cryostation_Close ==
  Guarded(<<"isOpen">>, Maybe(<<"flush", "query", "read1", "read1",
      "verify">>), <<"markClosed", "tclose">>, Except({"error", "timeout"},
      <<"flush", "query", "read1", "read1", "verify", "markClosed", "tclose">>,
      {}))
Cryostation_Execute == <<"flush", "query", "read1", "read1", "verify">>
Cryostation_Sensors ==
  Each({"get_alarm_state", "get_magnet_state", "get_magnet_target_field",
        "get_platform_heater_power", "get_pid_integral_frequency"},
       Cryostation_Execute) @@
  Each({"get_chamber_pressure", "set_pid_integral_frequency"},
       <<"valid">> \o Cryostation_Execute)
Cryostation_Temperatures ==
  Each({"get_pid_proportional_gain", "get_pid_derivative_time",
        "get_platform_stability", "get_stage_1_temperature",
        "get_stage_2_temperature", "get_platform_temperature",
        "get_sample_stability"},
       Cryostation_Execute) @@
  Each({"set_pid_proportional_gain", "set_pid_derivative_time"},
       <<"valid">> \o Cryostation_Execute)
Cryostation_Setpoints ==
  Each({"get_sample_temperature", "get_temperature_setpoint",
        "get_user_stability", "get_user_temperature", "start_standby",
        "start_cooldown", "start_warmup", "stop_system"},
       Cryostation_Execute) @@
  Each({"set_temperature_setpoint"}, <<"valid">> \o Cryostation_Execute)
Cryostation ==
  Driver("tcp", TRUE, Cryostation_Open, Cryostation_Close,
         Methods(Cryostation_Sensors) \cup Methods(Cryostation_Temperatures)
         \cup Methods(Cryostation_Setpoints))

-----------------------------------------------------------------------------
(* Montana CryoStation s50: every property is one HTTP request.            *)
CryostationS50_Open == Plain(<<"markOpen">>)
CryostationS50_Close == Plain(<<"isOpen", "markClosed">>)
CryostationS50_Request == <<"valid", "lib", "verify">>
CryostationS50_System ==
  Each({"get_system_goal", "get_system_state", "cooldown_allowed",
        "warmup_allowed", "set_platform_target_temperature",
        "get_platform_target_temperature", "get_platform_target_temperature_limit",
        "start_cooldown", "start_warmup", "enable_platform_bakeout",
        "disable_platform_bakeout", "is_platform_bakeout_enabled"},
       CryostationS50_Request)
CryostationS50_Bakeout ==
  Each({"get_platform_bakeout_temperature_limit",
        "set_platform_bakeout_temperature", "get_platform_bakeout_temperature",
        "set_platform_bakeout_time", "get_platform_bakeout_time",
        "is_cryocooler_running", "is_cryocooler_connected",
        "get_sample_thermometer_properties"},
       CryostationS50_Request)
CryostationS50 ==
  Driver("library", TRUE, CryostationS50_Open, CryostationS50_Close,
         Methods(CryostationS50_System) \cup Methods(CryostationS50_Bakeout))

-----------------------------------------------------------------------------
(* Thorlabs K10CR1, K10CR2: open() closes the transport also when it is refused. *)
K10CRx_Close == Plain(<<"markClosed", "tclose">>)
K10CRx_Status ==
  [get_idn |-> AptAsk(<<"isOpen">>, <<>>),
   get_motor_status |-> AptAsk(<<"isOpen">>, <<>>),
   get_chan_enable_state |-> AptAsk(<<"isOpen">>, <<>>)]
K10CRx_Enable ==
  Each({"identify", "set_chan_enable_state"},
       <<"isOpen", "drain", "tell">>)
K10CRx_Velocity ==
  [get_absolute_position |-> AptAsk(<<"isOpen">>, <<>>),
   get_velocity |-> AptAsk(<<"isOpen">>, <<>>),
   get_acceleration |-> AptAsk(<<"isOpen">>, <<>>),
   set_velocity |-> AptAsk(<<"isOpen", "valid">>, Maybe(<<"drain", "tell">>)),
   set_acceleration |-> AptAsk(<<"isOpen", "valid">>, Maybe(<<"drain",
     "tell">>))]
K10CRx_Backlash ==
  Each({"set_velocity_params"},
       <<"isOpen", "valid", "valid", "drain", "tell">>) @@
  Each({"set_backlash_distance"}, <<"valid", "isOpen", "drain", "tell">>)
K10CRx_Home ==
  [get_backlash_distance |-> AptAsk(<<"isOpen">>, <<>>),
   get_home_params |-> AptAsk(<<"isOpen">>, <<>>)]
K10CRx_HomeParams ==
  Each({"set_home_params"},
       <<"valid", "valid", "valid", "valid", "isOpen", "drain", "tell">>) @@
  Each({"move_stop", "move_home"},
       <<"isOpen", "drain", "tell">> \o Maybe(<<"reply">>)) @@
  Each({"move_relative"},
       <<"valid", "isOpen", "drain", "tell">> \o Maybe(<<"reply">>))
K10CRx_Move ==
  Each({"move_absolute"},
       <<"valid", "isOpen", "drain", "tell">> \o Maybe(<<"reply">>))
K10CRx_Wait ==
  [wait_move_complete |-> Guarded(<<"isOpen", "drain", "query", "read1",
     "read1", "verify">>, Maybe(<<"reply", "read1", "read1">>), <<>>,
     Except({"timeout"}, <<"drain", "query", "read1", "read1", "verify">>, {}))]

-----------------------------------------------------------------------------
K10CR1_Open ==
  Guarded(<<>>, <<"isClosed", "topen", "flush", "drain", "query", "read1",
      "read1", "verify">>, <<"markOpen">>, Rollback(<<"tclose">>))
K10CR1 ==
  Driver("serial", TRUE, K10CR1_Open, K10CRx_Close,
         Programs(K10CRx_Status) \cup Methods(K10CRx_Enable)
         \cup Programs(K10CRx_Velocity) \cup Methods(K10CRx_Backlash)
         \cup Programs(K10CRx_Home) \cup Methods(K10CRx_HomeParams)
         \cup Methods(K10CRx_Move) \cup Programs(K10CRx_Wait))

-----------------------------------------------------------------------------
K10CR2_Open ==
  Guarded(<<>>, <<"isClosed", "topen", "flush", "drain", "query", "read1",
      "read1", "verify">>, <<"markOpen">>, Rollback(<<"tclose">>))
K10CR2 ==
  Driver("serial", TRUE, K10CR2_Open, K10CRx_Close,
         Programs(K10CRx_Status) \cup Methods(K10CRx_Enable)
         \cup Programs(K10CRx_Velocity) \cup Methods(K10CRx_Backlash)
         \cup Programs(K10CRx_Home) \cup Methods(K10CRx_HomeParams)
         \cup Methods(K10CRx_Move) \cup Programs(K10CRx_Wait))

-----------------------------------------------------------------------------
(* Thorlabs KDC101: open() checks the model, and rolls back.               *)
KDC101_Open ==
  Guarded(<<"isClosed", "topen">>, <<"flush", "drain", "query", "read1",
      "read1", "verify">>, <<"markOpen">>, Rollback(<<"tclose">>))
KDC101_Close == Plain(<<"markClosed", "tclose">>)
KDC101_Status ==
  [get_idn |-> AptAsk(<<"isOpen">>, <<>>),
   get_motor_status |-> AptAsk(<<"isOpen">>, <<>>),
   get_chan_enable_state |-> AptAsk(<<"isOpen">>, <<>>),
   get_absolute_position |-> AptAsk(<<"isOpen">>, <<>>)]
KDC101_Enable ==
  Each({"identify", "set_chan_enable_state"},
       <<"isOpen", "drain", "tell">>)
KDC101_Velocity ==
  [get_velocity |-> AptAsk(<<"isOpen">>, <<>>),
   get_acceleration |-> AptAsk(<<"isOpen">>, <<>>),
   set_velocity |-> AptAsk(<<"isOpen", "valid">>, Maybe(<<"drain", "tell">>)),
   set_acceleration |-> AptAsk(<<"isOpen", "valid">>, Maybe(<<"drain",
     "tell">>)),
   get_backlash_distance |-> AptAsk(<<"isOpen">>, <<>>),
   get_home_params |-> AptAsk(<<"isOpen">>, <<>>)]
KDC101_Backlash ==
  Each({"set_backlash_distance"}, <<"valid", "isOpen", "drain", "tell">>)
KDC101_Home ==
  Each({"set_home_params"},
       <<"valid", "valid", "isOpen", "drain", "tell">>) @@
  Each({"move_stop", "move_home"},
       <<"isOpen", "drain", "tell">> \o Maybe(<<"reply">>)) @@
  Each({"move_relative", "move_absolute"},
       <<"valid", "isOpen", "drain", "tell">> \o Maybe(<<"reply">>))
KDC101_Wait ==
  [wait_move_complete |-> Guarded(<<"isOpen", "drain", "query", "read1",
     "read1", "verify">>, Maybe(<<"reply", "read1", "read1">>), <<>>,
     Except({"timeout"}, <<"drain", "query", "read1", "read1", "verify">>, {}))]
KDC101 ==
  Driver("serial", TRUE, KDC101_Open, KDC101_Close,
         Programs(KDC101_Status) \cup Methods(KDC101_Enable)
         \cup Programs(KDC101_Velocity) \cup Methods(KDC101_Backlash)
         \cup Methods(KDC101_Home) \cup Programs(KDC101_Wait))

-----------------------------------------------------------------------------
(* Thorlabs MPC320: can be told to send status messages by itself.         *)
MPC320_Open == Plain(<<"isClosed", "topen", "markOpen">>)
MPC320_Close == Plain(<<"markClosed", "tclose">>)
MPC320_Moving ==
  [_is_move_complete |-> Guarded(<<"valid", "isOpen", "drain", "query",
     "read1", "read1", "verify">>, Maybe(<<"reply", "read1", "read1">>), <<>>,
     Except({"timeout"}, <<>>, {}))]
MPC320_Identity ==
  [get_idn |-> AptAsk(<<"isOpen">>, <<>>),
   get_channel_state |-> AptAsk(<<"valid", "isOpen">>, <<>>)]
MPC320_Channels ==
  Each({"identify", "disable_all_channels", "stop_auto_status_update"},
       <<"isOpen", "drain", "tell">>) @@
  Each({"enable_channels"}, <<"isOpen", "valid", "drain", "tell">>) @@
  Each({"start_auto_status_update"},
       <<"isOpen", "drain", "tell", "reply">>) @@
  Each({"home_channel"},
       <<"valid", "isOpen", "drain", "tell">> \o Maybe(<<"reply">>))
MPC320_Homed ==
  [is_channel_homed |-> Guarded(<<"valid", "isOpen", "drain", "query",
     "read1", "read1", "verify">>, Maybe(<<"reply", "read1", "read1">>), <<>>,
     Except({"timeout"}, <<>>, {})),
   is_move_completed |-> Guarded(<<"valid", "isOpen", "drain", "query",
     "read1", "read1", "verify">>, Maybe(<<"reply", "read1", "read1">>), <<>>,
     Except({"timeout"}, <<>>, {})),
   get_status_update |-> AptAsk(<<"isOpen", "valid">>, <<>>)]
MPC320_Moves ==
  Each({"move_absolute"}, <<"valid", "valid", "isOpen", "drain",
        "tell">> \o Maybe(<<"reply">>)) @@
  Each({"save_parameter_settings", "jog"},
       <<"isOpen", "valid", "drain", "tell">>)
MPC320_Polarisation ==
  [get_polarisation_parameters |-> AptAsk(<<"isOpen">>, <<>>)]
MPC320_SetPolarisation ==
  Each({"set_polarisation_parameters"}, <<"isOpen", "valid", "valid",
        "valid", "valid", "valid", "drain", "tell">>)
MPC320 ==
  Driver("serial", TRUE, MPC320_Open, MPC320_Close,
         Programs(MPC320_Moving) \cup Programs(MPC320_Identity)
         \cup Methods(MPC320_Channels) \cup Programs(MPC320_Homed)
         \cup Methods(MPC320_Moves) \cup Programs(MPC320_Polarisation)
         \cup Methods(MPC320_SetPolarisation))

-----------------------------------------------------------------------------
(* Thorlabs MFF10x flip mount: the position is polled until the move is done. *)
MFF10X_Open == Plain(<<"isClosed", "topen", "flush", "markOpen">>)
MFF10X_Close == Plain(<<"markClosed", "tclose">>)
MFF10X_Query ==
  <<"isOpen", "flush", "query", "read1">> \o Maybe(<<"verify", "read1">>) \o
      <<"verify">>
MFF10X_Mount ==
  Each({"get_idn", "get_position"}, MFF10X_Query) @@
  Each({"move_mount"}, <<"isOpen", "valid", "flush", "tell">> \o
        Maybe(MFF10X_Query \o MFF10X_Query))
MFF10X ==
  Driver("serial", TRUE, MFF10X_Open, MFF10X_Close, Methods(MFF10X_Mount))

-----------------------------------------------------------------------------
(* New Focus TLB-670X: an error of the library is followed by a re-initialisation. *)
TLB670x_Open == Plain(<<"markOpen", "topen", "lib", "verify">>)
TLB670x_Close == Plain(<<"markClosed", "tclose">>)
TLB670x_Laser ==
  [_send |-> Guarded(<<"isOpen">>, <<"lib", "lib">>, Maybe(<<"lib">>) \o
     <<"verify">>, Except({"error"}, <<"isOpen", "tclose", "topen", "lib",
     "verify">>, Faults)),
   _receive |-> Guarded(<<"isOpen">>, <<"lib", "lib">>, Maybe(<<"lib">>) \o
     <<"verify">>, Except({"error"}, <<"isOpen", "tclose", "topen", "lib",
     "verify">>, Faults))]
TLB670x_Settings ==
  Each({"get_ident", "get_device_id"}, <<"isOpen">>)
TLB670x_Values ==
  [get_available_devices_info |-> Guarded(<<"isOpen">>, <<"lib">>, <<>>,
     Except({"error"}, <<"isOpen", "tclose", "topen", "lib", "verify">>,
     Faults)),
   get_wavelength |-> Guarded(<<"isOpen">>, <<"lib", "lib">>,
     Maybe(<<"lib">>) \o <<"verify">>, Except({"error"}, <<"isOpen", "tclose",
     "topen", "lib", "verify">>, Faults)),
   get_powermode |-> Guarded(<<"isOpen">>, <<"lib", "lib">>, Maybe(<<"lib">>)
     \o <<"verify">>, Except({"error"}, <<"isOpen", "tclose", "topen", "lib",
     "verify">>, Faults)),
   get_trackingmode |-> Guarded(<<"isOpen">>, <<"lib", "lib">>,
     Maybe(<<"lib">>) \o <<"verify">>, Except({"error"}, <<"isOpen", "tclose",
     "topen", "lib", "verify">>, Faults)),
   set_wavelength |-> Guarded(<<"valid", "isOpen">>, <<"lib", "lib">>,
     Maybe(<<"lib">>) \o <<"verify">>, Except({"error"}, <<"isOpen", "tclose",
     "topen", "lib", "verify">>, Faults)),
   set_powermode |-> Guarded(<<"valid", "isOpen">>, <<"lib", "lib">>,
     Maybe(<<"lib">>) \o <<"verify">>, Except({"error"}, <<"isOpen", "tclose",
     "topen", "lib", "verify">>, Faults)),
   set_trackingmode |-> Guarded(<<"valid", "isOpen">>, <<"lib", "lib">>,
     Maybe(<<"lib">>) \o <<"verify">>, Except({"error"}, <<"isOpen", "tclose",
     "topen", "lib", "verify">>, Faults)),
   reset |-> Guarded(<<"isOpen">>, <<"lib", "lib">>, Maybe(<<"lib">>) \o
     <<"verify">>, Except({"error"}, <<"isOpen", "tclose", "topen", "lib",
     "verify">>, Faults)),
   check_error_status |-> Guarded(<<"isOpen">>, <<"lib", "lib">>,
     Maybe(<<"lib">>) \o <<"verify">>, Except({"error"}, <<"isOpen", "tclose",
     "topen", "lib", "verify">>, Faults))]
TLB670x_Diode ==
  [get_diode_current |-> Guarded(<<"isOpen">>, <<"lib", "lib">>,
     Maybe(<<"lib">>) \o <<"verify">>, Except({"error"}, <<"isOpen", "tclose",
     "topen", "lib", "verify">>, Faults)),
   get_piezo_voltage |-> Guarded(<<"isOpen">>, <<"lib", "lib">>,
     Maybe(<<"lib">>) \o <<"verify">>, Except({"error"}, <<"isOpen", "tclose",
     "topen", "lib", "verify">>, Faults)),
   set_diode_current |-> Guarded(<<"valid", "isOpen">>, <<"lib", "lib">>,
     Maybe(<<"lib">>) \o <<"verify">>, Except({"error"}, <<"isOpen", "tclose",
     "topen", "lib", "verify">>, Faults)),
   set_piezo_voltage |-> Guarded(<<"valid", "isOpen">>, <<"lib", "lib">>,
     Maybe(<<"lib">>) \o <<"verify">>, Except({"error"}, <<"isOpen", "tclose",
     "topen", "lib", "verify">>, Faults))]
TLB670x ==
  Driver("library", TRUE, TLB670x_Open, TLB670x_Close,
         Programs(TLB670x_Laser) \cup Methods(TLB670x_Settings)
         \cup Programs(TLB670x_Values) \cup Programs(TLB670x_Diode))

-----------------------------------------------------------------------------
(* The drivers of this module.                                             *)
DriversMotionTable ==
  [SingleAxis |-> SingleAxis, SMC100CC |-> SMC100CC, SMC100PP |-> SMC100PP,
   AG_UC8 |-> AG_UC8, E873 |-> E873, Cryostation |-> Cryostation,
   CryostationS50 |-> CryostationS50, K10CR1 |-> K10CR1, K10CR2 |-> K10CR2,
   KDC101 |-> KDC101, MPC320 |-> MPC320, MFF10X |-> MFF10X,
   TLB670x |-> TLB670x]
==============================================================================
